---- MODULE Spec2Model ----
(***************************************************************************)
(* A model of the album-dataset pipeline: the lyric text normalizer and    *)
(* lyric metrics of scripts/04_get_lyrics.py, the track list builder of    *)
(* scripts/01_get_tracks.py, the video matcher of                          *)
(* scripts/02_match_youtube_videos.py and the statistics snapshotter of    *)
(* scripts/03_pull_youtube_stats.py.                                       *)
(*                                                                         *)
(* A Python str is a sequence of one-character strings; Chars("abc") is    *)
(* <<"a", "b", "c">>.  A character outside ASCII is the token "U+hhhh" of  *)
(* its code point, one element of the sequence.  Python's None is the      *)
(* value None below, which is no text.                                     *)
(***************************************************************************)
EXTENDS Integers, Sequences, FiniteSets, TLC

(***************************************************************************)
(* Characters and strings                                                  *)
(***************************************************************************)
Chars(s) == [i \in 1..Len(s) |-> SubSeq(s, i, i)]

None == <<"<None>">>

NL == "\n"

UpperSeq == Chars("ABCDEFGHIJKLMNOPQRSTUVWXYZ")
LowerSeq == Chars("abcdefghijklmnopqrstuvwxyz")
DigitSeq == Chars("0123456789")

AsciiUpper == {UpperSeq[i] : i \in 1..Len(UpperSeq)}
AsciiLower == {LowerSeq[i] : i \in 1..Len(LowerSeq)}
Digits == {DigitSeq[i] : i \in 1..Len(DigitSeq)}

\* Letters outside ASCII that occur in the language menu and in the mis-decoded
\* apostrophe (U+00E2).  U+0420 is the one with a lower-case form (U+0440).
LetterTokens ==
    {"U+00FC", "U+00E7", "U+00EA", "U+00F1",
     "U+0420", "U+0443", "U+0441", "U+043A", "U+0438", "U+0439", "U+0440",
     "U+D55C", "U+AD6D", "U+C5B4", "U+65E5", "U+672C", "U+8A9E", "U+4E2D", "U+6587",
     "U+0627", "U+0644", "U+0639", "U+0631", "U+0628", "U+064A", "U+0629",
     "U+0939", "U+0928", "U+0926", "U+00E2"}

\* str.lower(), character by character.
LowerMap ==
    [c \in AsciiUpper \cup {"U+0420"} |->
        IF c = "U+0420" THEN "U+0440"
        ELSE LowerSeq[CHOOSE i \in 1..Len(UpperSeq) : UpperSeq[i] = c]]

Lower(c) == IF c \in DOMAIN LowerMap THEN LowerMap[c] ELSE c

ToLower(s) == [i \in 1..Len(s) |-> Lower(s[i])]

\* The regular-expression class \s, which is also what str.strip() strips.
IsSpace(c) == c \in {" ", "\t", "\n", "\r", "U+000B", "U+000C", "U+00A0"}

\* The regular-expression class \w.
IsWordChar(c) == c \in AsciiUpper \cup AsciiLower \cup Digits \cup {"_"} \cup LetterTokens

IsDigit(c) == c \in Digits

\* p occurs in s at index i (1-based).
MatchAt(s, i, p) ==
    /\ i >= 1
    /\ i + Len(p) - 1 <= Len(s)
    /\ \A k \in 1..Len(p) : s[i + k - 1] = p[k]

\* The same, ignoring case (re.IGNORECASE): p is lower-case.
MatchAtI(s, i, p) ==
    /\ i >= 1
    /\ i + Len(p) - 1 <= Len(s)
    /\ \A k \in 1..Len(p) : Lower(s[i + k - 1]) = p[k]

\* Python's "p in s".
Contains(s, p) ==
    \/ p = <<>>
    \/ \E i \in 1..(Len(s) - Len(p) + 1) : s[i] = p[1] /\ MatchAt(s, i, p)

StartsWith(s, p) == MatchAt(s, 1, p)

EndsWith(s, p) == Len(p) <= Len(s) /\ MatchAt(s, Len(s) - Len(p) + 1, p)

\* any(p in s for p in phrases)
ContainsAny(s, phrases) == \E k \in 1..Len(phrases) : Contains(s, phrases[k])

\* The least k in lo..hi with P(k), 0 if there is none.
FirstIndex(lo, hi, P(_)) ==
    IF \E k \in lo..hi : P(k)
    THEN CHOOSE k \in lo..hi : P(k) /\ \A m \in lo..(k - 1) : ~P(m)
    ELSE 0

\* The characters of s at the indices i with Keep(i), in order.
KeepIndices(s, Keep(_)) ==
    LET Test(p) == Keep(p[1])
        Chosen(sel) == [j \in 1..Len(sel) |-> sel[j][2]]
    IN  Chosen(SelectSeq([i \in 1..Len(s) |-> <<i, s[i]>>], Test))

\* The first index >= i whose character is not white space, Len(s)+1 if none.
SkipSpace(s, i) ==
    LET NotSpace(k) == ~IsSpace(s[k])
        OrEnd(k0) == IF k0 = 0 THEN (IF i > Len(s) THEN i ELSE Len(s) + 1) ELSE k0
    IN  OrEnd(FirstIndex(i, Len(s), NotSpace))

\* The first index >= i holding c, 0 if none.
IndexFrom(s, c, i) ==
    LET IsC(k) == s[k] = c
    IN  FirstIndex(i, Len(s), IsC)

\* The last index <= j whose character is not white space, 0 if none.
LastNonSpace(s, j) ==
    IF \E k \in 1..j : ~IsSpace(s[k])
    THEN CHOOSE k \in 1..j : ~IsSpace(s[k]) /\ \A m \in (k + 1)..j : IsSpace(s[m])
    ELSE 0

\* str.strip()
Strip(s) ==
    LET Between(a, b) == IF a > b THEN <<>> ELSE SubSeq(s, a, b)
    IN  Between(SkipSpace(s, 1), LastNonSpace(s, Len(s)))

\* str.rstrip()
RStrip(s) == SubSeq(s, 1, LastNonSpace(s, Len(s)))

\* str.split("\n"): the pieces between the newlines, empty ones included.
SplitLines(s) ==
    LET IsNewline(i) == s[i] = NL
        Pieces(cut) == [k \in 1..(Len(cut) - 1) |-> SubSeq(s, cut[k] + 1, cut[k + 1] - 1)]
    IN  Pieces(<<0>> \o SelectSeq([i \in 1..Len(s) |-> i], IsNewline) \o <<Len(s) + 1>>)

\* "\n".join(lines)
RECURSIVE JoinLines(_)
JoinLines(lines) ==
    IF Len(lines) = 0 THEN <<>>
    ELSE IF Len(lines) = 1 THEN lines[1]
    ELSE lines[1] \o <<NL>> \o JoinLines(Tail(lines))

\* [ln.strip() for ln in text.split("\n")]
StripEach(lines) == [i \in 1..Len(lines) |-> Strip(lines[i])]

\* set(seq): the elements of a sequence
Range(f) == {f[i] : i \in DOMAIN f}

\* list.pop(i), 1-based
RemoveAt(seq, i) == SubSeq(seq, 1, i - 1) \o SubSeq(seq, i + 1, Len(seq))

(***************************************************************************)
(* scripts/04_get_lyrics.py: the regular-expression steps                  *)
(***************************************************************************)
\* re.sub(r"\r\n?", "\n", s): a newline right after a carriage return goes,
\* every carriage return becomes a newline.
ReplaceCRLF(s) ==
    LET Keep(i) == ~(s[i] = NL /\ i > 1 /\ s[i - 1] = "\r")
        Newlines(kept) == [i \in 1..Len(kept) |-> IF kept[i] = "\r" THEN NL ELSE kept[i]]
    IN  Newlines(KeepIndices(s, Keep))

IsBlank(c) == c \in {" ", "\t"}

\* re.sub(r"[ \t]+", " ", s): of a run of blanks, one space stays.
CollapseBlanks(s) ==
    LET Keep(i) == ~(IsBlank(s[i]) /\ i > 1 /\ IsBlank(s[i - 1]))
        Spaces(kept) == [i \in 1..Len(kept) |-> IF IsBlank(kept[i]) THEN " " ELSE kept[i]]
    IN  Spaces(KeepIndices(s, Keep))

\* re.sub(r"\s+", " ", s): of a run of white space, one space stays.
CollapseSpace(s) ==
    LET Keep(i) == ~(IsSpace(s[i]) /\ i > 1 /\ IsSpace(s[i - 1]))
        Spaces(kept) == [i \in 1..Len(kept) |-> IF IsSpace(kept[i]) THEN " " ELSE kept[i]]
    IN  Spaces(KeepIndices(s, Keep))

\* re.sub(r"\n{3,}", "\n\n", s): of a run of three or more newlines, two stay.
CollapseNewlines(s) ==
    LET Keep(i) == ~(s[i] = NL /\ i > 2 /\ s[i - 1] = NL /\ s[i - 2] = NL)
    IN  KeepIndices(s, Keep)

normalize_whitespace(s) == Strip(CollapseNewlines(CollapseBlanks(ReplaceCRLF(s))))

\* The section keywords of the header pattern, (?:pre|post)-?chorus first.
HeaderKeywords ==
    <<Chars("pre-chorus"), Chars("prechorus"), Chars("post-chorus"), Chars("postchorus"),
      Chars("chorus"), Chars("verse"), Chars("bridge"), Chars("intro"), Chars("outro"),
      Chars("refrain"), Chars("hook"), Chars("interlude"), Chars("skit")>>

\* The header pattern matches at i: "[", a section keyword (any case), then
\* anything up to the next "]", line breaks included.  The match's last index,
\* 0 if there is no match at i.
HeaderEnd(s, i) ==
    IF /\ s[i] = "["
       /\ \E k \in 1..Len(HeaderKeywords) : MatchAtI(s, i + 1, HeaderKeywords[k])
    THEN IndexFrom(s, "]", i + 1)
    ELSE 0

\* re.sub(r"\[(?:...)[^]]*\]", "", text, flags=re.IGNORECASE), from index i on:
\* the matches are taken left to right and do not overlap.
RECURSIVE HeadersFrom(_, _)
HeadersFrom(s, i) ==
    LET Starts(j) == HeaderEnd(s, j) > 0
        Cut(j0) == IF j0 = 0 THEN SubSeq(s, i, Len(s))
                   ELSE SubSeq(s, i, j0 - 1) \o HeadersFrom(s, HeaderEnd(s, j0) + 1)
    IN  Cut(FirstIndex(i, Len(s), Starts))

RemoveSectionHeaders(s) == HeadersFrom(s, 1)

\* re.sub(r"\(\s*([\s\S]*?)\s*\)", r"(\1)", text): from each "(" that has a ")"
\* after it to the first such ")", the white space next to the parentheses goes.
RECURSIVE ParensFrom(_, _)
ParensFrom(s, i) ==
    LET Tighten(p, q) ==
            IF q = 0 THEN SubSeq(s, i, Len(s))
            ELSE SubSeq(s, i, p) \o RStrip(SubSeq(s, SkipSpace(s, p + 1), q - 1)) \o <<")">>
                 \o ParensFrom(s, q + 1)
        Opened(p) == Tighten(p, IF p = 0 THEN 0 ELSE IndexFrom(s, ")", p + 1))
    IN  Opened(IndexFrom(s, "(", i))

NormalizeParens(s) == ParensFrom(s, 1)

\* r"\n\s*<phrase>\s*\n" matches at the newline at i: white space, the phrase
\* (any case), white space holding a newline.
FooterAt(s, i, phrase) ==
    /\ s[i] = NL
    /\ LET PhraseAt(j) == /\ MatchAtI(s, j, phrase)
                          /\ \E k \in (j + Len(phrase))..(SkipSpace(s, j + Len(phrase)) - 1) :
                                 s[k] = NL
       IN  PhraseAt(SkipSpace(s, i + 1))

\* re.sub(r"\n\s*<phrase>\s*\n.*", "\n", text, flags=re.IGNORECASE | re.DOTALL)
RemoveFooter(s, phrase) ==
    LET Starts(i) == FooterAt(s, i, phrase)
        Cut(i0) == IF i0 = 0 THEN s ELSE SubSeq(s, 1, i0 - 1) \o <<NL>>
    IN  Cut(FirstIndex(1, Len(s), Starts))

\* Curly quotes to straight quotes, en and em dashes to hyphens.
NormPunct(c) ==
    IF c \in {"U+2019", "U+2018"} THEN "'"
    ELSE IF c \in {"U+201C", "U+201D"} THEN "\""
    ELSE IF c \in {"U+2013", "U+2014"} THEN "-"
    ELSE c

_norm_for_title_match(s) ==
    LET Folded(t) == [i \in 1..Len(t) |-> NormPunct(t[i])]
    IN  CollapseSpace(Folded(Strip(ToLower(s))))

_norm_for_title_match_early(s) == _norm_for_title_match(s)

(***************************************************************************)
(* scripts/04_get_lyrics.py: clean_lyrics_text                             *)
(***************************************************************************)
bad_phrases ==
    <<Chars("is the"), Chars("track off"), Chars("studio album"),
      Chars("highly anticipated"), Chars("featuring"), Chars("the track is about"),
      Chars("this track is about"), Chars("the song is about"), Chars("produced by"),
      Chars("released"), Chars("release"), Chars("read more")>>

DescLenTop == 40

looks_like_description_line(ln, tn_lower) ==
    LET Looks(s, sl) ==
            IF s = <<>> THEN FALSE
            ELSE IF tn_lower # <<>> /\ Contains(sl, tn_lower) /\ ContainsAny(sl, bad_phrases)
                 THEN TRUE
            ELSE IF ContainsAny(sl, bad_phrases) /\ Len(s) > DescLenTop THEN TRUE
            ELSE IF EndsWith(s, <<"U+2026">>) \/ EndsWith(s, Chars("...")) THEN TRUE
            ELSE FALSE
    IN  Looks(Strip(ln), ToLower(Strip(ln)))

max_top_nonempty == 8

\* The while loop over lines0: i is the (1-based) index, seen is nonempty_seen.
RECURSIVE TopScan(_, _, _, _)
TopScan(lines0, i, seen, tn_lower) ==
    IF ~(i <= Len(lines0) /\ seen < max_top_nonempty) THEN lines0
    ELSE IF Strip(lines0[i]) = <<>> THEN TopScan(lines0, i + 1, seen, tn_lower)
    ELSE IF looks_like_description_line(lines0[i], tn_lower)
         THEN TopScan(RemoveAt(lines0, i), i, seen, tn_lower)
    ELSE TopScan(lines0, i + 1, seen + 1, tn_lower)

language_menu ==
    {Chars("Deutsch"),
     <<"T", "U+00FC", "r", "k", "U+00E7", "e">>,
     <<"U+0420", "U+0443", "U+0441", "U+0441", "U+043A", "U+0438", "U+0439">>,
     <<"U+0420", "U+0443", "U+0441", "U+0441", "U+043A", "U+0438", "U+0439", " ", "(", "R", "u", "s", "s", "i", "a", "n", ")">>,
     <<"P", "o", "r", "t", "u", "g", "u", "U+00EA", "s">>,
     <<"E", "s", "p", "a", "U+00F1", "o", "l">>,
     <<"F", "r", "a", "n", "U+00E7", "a", "i", "s">>,
     Chars("Italiano"),
     Chars("Nederlands"),
     Chars("Polski"),
     Chars("Svenska"),
     <<"U+D55C", "U+AD6D", "U+C5B4">>,
     <<"U+65E5", "U+672C", "U+8A9E">>,
     <<"U+4E2D", "U+6587">>,
     <<"U+0627", "U+0644", "U+0639", "U+0631", "U+0628", "U+064A", "U+0629">>,
     <<"U+0939", "U+093F", "U+0928", "U+094D", "U+0926", "U+0940">>,
     Chars("Bahasa Indonesia")}

\* re.fullmatch(r"\d+\s+contributors?", ln, flags=re.IGNORECASE)
IsContributorsLine(ln) ==
    \E d \in 1..Len(ln) :
        /\ \A k \in 1..d : IsDigit(ln[k])
        /\ d < Len(ln) /\ IsSpace(ln[d + 1])
        /\ ToLower(SubSeq(ln, SkipSpace(ln, d + 1), Len(ln)))
               \in {Chars("contributor"), Chars("contributors")}

\* re.fullmatch(r"translations?", ln, flags=re.IGNORECASE)
IsTranslationsLine(ln) == ToLower(ln) \in {Chars("translation"), Chars("translations")}

\* The title-echo test comparing lower-cased text only, without folding
\* curly quotes and dashes.
IsTitleEcho_verbatim(ln, track_name) ==
    LET Echoes(ln_norm, tn_norm) ==
            \/ ln_norm = tn_norm \o Chars(" lyrics")
            \/ EndsWith(ln_norm, Chars(" lyrics")) /\ Contains(ln_norm, tn_norm)
    IN  Echoes(Strip(ToLower(ln)), Strip(ToLower(track_name)))

\* The title-echo test of the line loop.
IsTitleEcho(ln, track_name) ==
    LET Echoes(ln_norm, tn_norm) ==
            \/ ln_norm = tn_norm \o Chars(" lyrics")
            \/ EndsWith(ln_norm, Chars(" lyrics")) /\ Contains(ln_norm, tn_norm)
    IN  Echoes(_norm_for_title_match(ln), _norm_for_title_match(track_name))

\* One pass of the line loop: whether ln is appended to cleaned_lines.
KeepLine(ln, track_name, tn_lower) ==
    /\ ln # <<>>
    /\ ln \notin language_menu
    /\ ~(StartsWith(ln, <<"[">>) /\ EndsWith(ln, <<"]">>))
    /\ ~(tn_lower # <<>> /\ IsTitleEcho(ln, track_name))
    /\ ~IsContributorsLine(ln)
    /\ ~IsTranslationsLine(ln)

\* A regular-expression \b before index i and after index j of s, where s[i]
\* and s[j] are word characters.
BoundaryBefore(s, i) == i = 1 \/ ~IsWordChar(s[i - 1])

BoundaryAfter(s, j) == j = Len(s) \/ ~IsWordChar(s[j + 1])

\* re.search(r"\b(?:w1|w2|...)\b", s)
ContainsWord(s, words) ==
    \E k \in 1..Len(words) : \E i \in 1..(Len(s) - Len(words[k]) + 1) :
        /\ s[i] = words[k][1]
        /\ MatchAt(s, i, words[k])
        /\ BoundaryBefore(s, i)
        /\ BoundaryAfter(s, i + Len(words[k]) - 1)

\* re.search(r"\b(?:w1|w2|...)\s+single\b", s)
ContainsWordThenSingle(s, words) ==
    \E k \in 1..Len(words) : \E i \in 1..(Len(s) - Len(words[k]) + 1) :
        /\ s[i] = words[k][1]
        /\ MatchAt(s, i, words[k])
        /\ BoundaryBefore(s, i)
        /\ LET SingleAt(e, j) == /\ j > e
                                 /\ MatchAt(s, j, Chars("single"))
                                 /\ BoundaryAfter(s, j + 5)
           IN  SingleAt(i + Len(words[k]), SkipSpace(s, i + Len(words[k])))

\* re.search(r"\b(19|20)\d{2}\b", s)
ContainsYear(s) ==
    \E i \in 1..(Len(s) - 3) :
        /\ MatchAt(s, i, Chars("19")) \/ MatchAt(s, i, Chars("20"))
        /\ IsDigit(s[i + 2]) /\ IsDigit(s[i + 3])
        /\ BoundaryBefore(s, i)
        /\ BoundaryAfter(s, i + 3)

strong_phrases ==
    <<Chars("released"), Chars("music video"), Chars("released on"), Chars("released in"),
      Chars("premiered"), Chars("announced"), Chars("release was announced")>>

weak_phrases ==
    <<Chars("album"), Chars("in conjunction"), Chars("in anticipation"),
      Chars("produced by"), Chars("followed"), Chars("featuring"), Chars("feat.")>>

release_single_words ==
    <<Chars("lead"), Chars("debut"), Chars("second"), Chars("third"), Chars("promotional")>>

determiner_words ==
    <<Chars("the"), Chars("a"), Chars("this"), Chars("that"), Chars("his"), Chars("her"),
      Chars("their"), Chars("its")>>

single_context == strong_phrases \o <<Chars("album"), Chars("track"), Chars("song")>>

month_words ==
    <<Chars("jan"), Chars("january"), Chars("feb"), Chars("february"), Chars("mar"),
      Chars("march"), Chars("apr"), Chars("april"), Chars("may"), Chars("jun"),
      Chars("june"), Chars("jul"), Chars("july"), Chars("aug"), Chars("august"),
      Chars("sep"), Chars("september"), Chars("oct"), Chars("october"), Chars("nov"),
      Chars("november"), Chars("dec"), Chars("december")>>

DescLenAnywhere == 30

DescLenMonth == 20

looks_like_description_anywhere(ln, tn_lower) ==
    LET Looks(s, sl) ==
            IF s = <<>> THEN FALSE
            ELSE IF ContainsAny(sl, strong_phrases) /\ Len(s) > DescLenAnywhere THEN TRUE
            ELSE IF /\ tn_lower # <<>>
                    /\ ContainsAny(sl, weak_phrases)
                    /\ Contains(sl, tn_lower)
                    /\ Len(s) > DescLenAnywhere
                 THEN TRUE
            ELSE IF /\ Contains(sl, Chars("single"))
                    /\ \/ ContainsWordThenSingle(sl, release_single_words) /\ Len(s) > DescLenAnywhere
                       \/ /\ ContainsWordThenSingle(sl, determiner_words)
                          /\ Len(s) > DescLenAnywhere
                          /\ ContainsAny(sl, single_context)
                 THEN TRUE
            ELSE IF ContainsWord(sl, month_words) /\ Len(s) > DescLenMonth THEN TRUE
            ELSE IF ContainsYear(s)
                 THEN ContainsAny(sl, strong_phrases) /\ Len(s) > DescLenAnywhere
            ELSE FALSE
    IN  Looks(Strip(ln), ToLower(Strip(ln)))

\* The text after the header, parenthesis and footer substitutions.
StrippedText(raw) ==
    RemoveFooter(
        RemoveFooter(NormalizeParens(RemoveSectionHeaders(ReplaceCRLF(raw))),
                     Chars("you might also like")),
        Chars("embed"))

\* lines0 after the scan of the first non-empty lines.
TopScanned(raw, tn_lower) == TopScan(StripEach(SplitLines(StrippedText(raw))), 1, 0, tn_lower)

\* filtered_lines
FilteredLines(raw, track_name) ==
    LET Filtered(tn_lower) ==
            LET Keep(ln) == KeepLine(ln, track_name, tn_lower)
                NotDescription(ln) == ~looks_like_description_anywhere(ln, tn_lower)
            IN  SelectSeq(SelectSeq(StripEach(SplitLines(JoinLines(TopScanned(raw, tn_lower)))),
                                    Keep),
                          NotDescription)
    IN  Filtered(_norm_for_title_match_early(track_name))

\* The value returned for a non-empty raw text.
ReturnValue(out) == <<NL>> \o Strip(out)

\* clean_lyrics_text without the early return of lines 102-103.
clean_lyrics_text_unguarded(raw, track_name) ==
    ReturnValue(normalize_whitespace(JoinLines(FilteredLines(raw, track_name))))

clean_lyrics_text(raw, track_name) ==
    IF raw = None \/ raw = <<>> THEN <<>>
    ELSE ReturnValue(normalize_whitespace(JoinLines(FilteredLines(raw, track_name))))

(***************************************************************************)
(* scripts/04_get_lyrics.py: lyric metrics                                 *)
(***************************************************************************)
\* WORD_RE = [A-Za-z0-9']+
IsTokenChar(c) == c \in AsciiUpper \cup AsciiLower \cup Digits \cup {"'"}

\* WORD_RE.findall(text): the maximal runs of token characters, left to right.
FindWords(text) ==
    LET Starts(i) == IsTokenChar(text[i]) /\ (i = 1 \/ ~IsTokenChar(text[i - 1]))
        Ends(i) == IsTokenChar(text[i]) /\ (i = Len(text) \/ ~IsTokenChar(text[i + 1]))
        Runs(from, to) == [k \in 1..Len(from) |-> SubSeq(text, from[k], to[k])]
    IN  Runs(SelectSeq([i \in 1..Len(text) |-> i], Starts),
             SelectSeq([i \in 1..Len(text) |-> i], Ends))

_tokenize_words(text) ==
    IF text = None \/ text = <<>> THEN <<>>
    ELSE LET Lowered(words) == [k \in 1..Len(words) |-> ToLower(words[k])]
         IN  Lowered(FindWords(text))

count_words(text) == Len(_tokenize_words(text))

\* set(_tokenize_words(text))
UniqueWords(text) == Range(_tokenize_words(text))

\* The distinct words counted as written, without lower-casing.
count_unique_words_cased(text) ==
    IF text = None \/ text = <<>> THEN 0
    ELSE Cardinality(Range(FindWords(text)))

count_unique_words(text) == Cardinality(UniqueWords(text))

\* Ratios are integers counting millionths: round(x, 6) keeps six decimals.
RatioDigits == 6

RECURSIVE Pow10(_)
Pow10(n) == IF n = 0 THEN 1 ELSE 10 * Pow10(n - 1)

\* 1.0 as a ratio.
RatioOne == Pow10(RatioDigits)

\* The first n decimals of num / total (0 <= num < total) and what remains,
\* by long division, so that no product exceeds the integers TLC computes with.
RECURSIVE Decimals(_, _, _)
Decimals(num, total, n) ==
    IF n = 0 THEN <<0, num>>
    ELSE LET NextDigit(d) == <<10 * d[1] + (10 * d[2]) \div total, (10 * d[2]) % total>>
         IN  NextDigit(Decimals(num, total, n - 1))

\* round(unique / total, 6): the share of distinct words, not its complement.
RoundedShare(unique, total) ==
    LET HalfEven(q, r2) == IF r2 > total \/ (r2 = total /\ q % 2 = 1) THEN q + 1 ELSE q
        Rounded(d) == HalfEven((unique \div total) * RatioOne + d[1], 2 * d[2])
    IN  Rounded(Decimals(unique % total, total, RatioDigits))

\* The bits of the significand of a Python float (an IEEE 754 double).
MantissaBits == 53

\* The zeros between the point and the first one of the binary digits of
\* r / t (0 < r < t).
RECURSIVE LeadingZeros(_, _)
LeadingZeros(r, t) == IF 2 * r >= t THEN 0 ELSE 1 + LeadingZeros(2 * r, t)

\* The first n binary digits of r / t after the point (0 <= r < t, n >= 1),
\* by long division, and the remainder: one half of the digits, then the
\* other half from the remainder of the first.
RECURSIVE DivBits(_, _, _)
DivBits(r, t, n) ==
    IF n = 1 THEN (IF 2 * r >= t THEN <<<<1>>, 2 * r - t>> ELSE <<<<0>>, 2 * r>>)
    ELSE LET Low(high) ==
                 LET Join(low) == <<high[1] \o low[1], low[2]>>
                 IN  Join(DivBits(high[2], t, n - n \div 2))
         IN  Low(DivBits(r, t, n \div 2))

\* One unit in the last place added to a binary fraction; a fraction of ones
\* only becomes a fraction of zeros, the carry is the caller's.
IncBits(bits) ==
    LET LastZero(zeros) ==
            IF zeros = {} THEN 0 ELSE CHOOSE i \in zeros : \A j \in zeros : j <= i
        Carried(z) ==
            [i \in 1..Len(bits) |-> IF i < z THEN bits[i] ELSE IF i = z THEN 1 ELSE 0]
    IN  Carried(LastZero({i \in 1..Len(bits) : bits[i] = 0}))

\* unique / total (0 < unique < total) as a float: the quotient rounded to
\* the nearest value of MantissaBits significant bits, a tie to the even one.
FloatQuotient(unique, total) ==
    LET Nearest(d) ==
            IF 2 * d[2] > total \/ (2 * d[2] = total /\ d[1][Len(d[1])] = 1)
            THEN IncBits(d[1]) ELSE d[1]
    IN  Nearest(DivBits(unique, total, LeadingZeros(unique, total) + MantissaBits))

\* 1 - q for a binary fraction q with 0 < q < 1, exactly.
OneMinus(bits) == IncBits([i \in 1..Len(bits) |-> 1 - bits[i]])

\* A binary fraction below 1 rounded to MantissaBits significant bits, a tie
\* to the even neighbour: the whole part (1 when it rounds up to 1.0) and the
\* bits after the point.
RoundBits(bits) ==
    LET IsOne(k) == bits[k] = 1
        Up(keep) ==
            /\ bits[keep + 1] = 1
            /\ \/ bits[keep] = 1
               \/ \E i \in (keep + 2)..Len(bits) : bits[i] = 1
        Kept(keep) ==
            IF Len(bits) <= keep THEN <<0, bits>>
            ELSE IF ~Up(keep) THEN <<0, SubSeq(bits, 1, keep)>>
            ELSE IF \A i \in 1..keep : bits[i] = 1 THEN <<1, <<>>>>
            ELSE <<0, IncBits(SubSeq(bits, 1, keep))>>
    IN  Kept(FirstIndex(1, Len(bits), IsOne) + MantissaBits - 1)

\* Ten times the bits i..j of a binary fraction plus the carry from the bits
\* after them: the carry into the bit before them (the whole part, a decimal
\* digit, when i = 1) and the new bits i..j; zeros with nothing carried stay
\* zeros, otherwise the later half first, its carry into the earlier half.
RECURSIVE TimesTen(_, _, _, _)
TimesTen(bits, i, j, carry) ==
    IF carry = 0 /\ \A k \in i..j : bits[k] = 0 THEN <<0, [k \in 1..(j - i + 1) |-> 0]>>
    ELSE IF i > j THEN <<carry, <<>>>>
    ELSE IF i = j THEN <<(10 * bits[i] + carry) \div 2, <<(10 * bits[i] + carry) % 2>>>>
    ELSE LET High(low) ==
                 LET Join(high) == <<high[1], high[2] \o low[2]>>
                 IN  Join(TimesTen(bits, i, (i + j) \div 2, low[1]))
         IN  High(TimesTen(bits, (i + j) \div 2 + 1, j, carry))

\* The first n decimals of a binary fraction, after the k that are there,
\* and the bits of what remains.
RECURSIVE DecimalsOfBits(_, _, _)
DecimalsOfBits(bits, n, k) ==
    IF n = 0 THEN <<k, bits>>
    ELSE LET Shifted(m) == DecimalsOfBits(m[2], n - 1, 10 * k + m[1])
         IN  Shifted(TimesTen(bits, 1, Len(bits), 0))

\* round(x, 6) of a float 0 <= x <= 1, in millionths: the exact value of the
\* float goes to the nearest millionth, a value exactly halfway to the even one.
RoundFloat(x) ==
    LET Rest(f) == \E i \in 2..Len(f) : f[i] = 1
        HalfEven(k, f) ==
            IF Len(f) > 0 /\ f[1] = 1 /\ (Rest(f) \/ k % 2 = 1) THEN k + 1 ELSE k
        Rounded(d) == HalfEven(d[1], d[2])
    IN  Rounded(DecimalsOfBits(x[2], RatioDigits, x[1]))

\* round(1.0 - unique / total, 6) for 1 <= unique <= total, in millionths:
\* the quotient is rounded to a float, so is its difference from 1.0, and
\* round() rounds the float that results.
RoundedRatio(unique, total) ==
    IF unique = total THEN 0
    ELSE RoundFloat(RoundBits(OneMinus(FloatQuotient(unique, total))))

\* lines 382-386 of repetition_ratio, on the two counts
RatioOf(unique, total) == IF total = 0 THEN 0 ELSE RoundedRatio(unique, total)

repetition_ratio(text) == RatioOf(count_unique_words(text), count_words(text))

(***************************************************************************)
(* scripts/01_get_tracks.py: track names and identifiers                   *)
(***************************************************************************)
ALBUM_SLUG == Chars("dont_be_dumb")

IsOpener(c) == c \in {"(", "["}

IsCloser(c) == c \in {")", "]"}

FeatKeywords == <<Chars("feat."), Chars("ft."), Chars("featuring")>>

NoiseKeywords ==
    <<Chars("official audio"), Chars("official video"), Chars("audio"), Chars("video"),
      Chars("explicit"), Chars("clean"), Chars("lyric")>>

\* Some keyword stands at index j of s, in any letter case.
KeywordAt(s, j, keywords) == \E k \in 1..Len(keywords) : MatchAtI(s, j, keywords[k])

\* re.sub(r"[\(\[].*?(k1|k2|...).*?[\)\]]", "", s, flags=re.IGNORECASE) from
\* index p on: a match runs from the first opening bracket over the first
\* keyword after it to the first closing bracket after that keyword.
RECURSIVE BracketedFrom(_, _, _)
BracketedFrom(s, p, keywords) ==
    LET Opens(i) == IsOpener(s[i])
        Keyword(j) == KeywordAt(s, j, keywords)
        Closes(c) == IsCloser(s[c])
        KeywordAfter(i) == IF i = 0 THEN 0 ELSE FirstIndex(i + 1, Len(s), Keyword)
        CloserAfter(j) == IF j = 0 THEN 0 ELSE FirstIndex(j + 1, Len(s), Closes)
        Cut(i, c) == IF c = 0 THEN SubSeq(s, p, Len(s))
                     ELSE SubSeq(s, p, i - 1) \o BracketedFrom(s, c + 1, keywords)
        OpenedAt(i) == Cut(i, CloserAfter(KeywordAfter(i)))
    IN  OpenedAt(FirstIndex(p, Len(s), Opens))

RemoveBracketed(s, keywords) == BracketedFrom(s, 1, keywords)

\* The first index of the run of white space that ends just before index i.
SpaceRunStart(s, i) ==
    LET NotSpace(k) == ~IsSpace(s[k])
    IN  IF \E k \in 1..(i - 1) : NotSpace(k)
        THEN 1 + CHOOSE k \in 1..(i - 1) : NotSpace(k) /\ \A m \in (k + 1)..(i - 1) : IsSpace(s[m])
        ELSE 1

SuffixKeywords ==
    {Chars("official audio"), Chars("official video"), Chars("audio"), Chars("video"),
     Chars("lyric"), Chars("lyrics")}

\* re.sub(r"\s*-\s*(official audio|official video|audio|video|lyrics?)\s*$", "", s,
\* flags=re.IGNORECASE): the keyword stands after the last hyphen.
RemoveDashSuffix(s) ==
    LET IsDash(k) == s[k] = "-"
        Cut(d) == IF d # 0 /\ ToLower(Strip(SubSeq(s, d + 1, Len(s)))) \in SuffixKeywords
                  THEN SubSeq(s, 1, SpaceRunStart(s, d) - 1)
                  ELSE s
    IN  Cut(IF \E k \in 1..Len(s) : IsDash(k)
            THEN CHOOSE k \in 1..Len(s) : IsDash(k) /\ \A m \in (k + 1)..Len(s) : ~IsDash(m)
            ELSE 0)

\* The first index >= i whose character is not a digit, Len(s)+1 if none.
SkipDigits(s, i) ==
    LET NotDigit(k) == ~IsDigit(s[k])
        OrEnd(k0) == IF k0 = 0 THEN (IF i > Len(s) THEN i ELSE Len(s) + 1) ELSE k0
    IN  OrEnd(FirstIndex(i, Len(s), NotDigit))

\* \d+(\.\d+)? at index a of s: the index after the number, 0 if no number
\* stands there.
NumberEnd(s, a) ==
    LET End(b, c) == IF b = a THEN 0
                     ELSE IF b <= Len(s) /\ s[b] = "." /\ c > b + 1 THEN c
                     ELSE b
        Whole(b) == End(b, SkipDigits(s, b + 1))
    IN  Whole(SkipDigits(s, a))

\* r"lyrics\s*\d+(\.\d+)?k\s*$" at index j of s, ignoring case.  Before the
\* final k the number is taken whole: with its decimals when "." and digits
\* follow, and without them only when they do not.
LyricsCountAt(s, j) ==
    /\ MatchAtI(s, j, Chars("lyrics"))
    /\ LET UnitAt(e) == /\ e # 0
                        /\ e <= Len(s)
                        /\ Lower(s[e]) = "k"
                        /\ SkipSpace(s, e + 1) > Len(s)
       IN  UnitAt(NumberEnd(s, SkipSpace(s, j + 6)))

\* re.sub(r"\s*lyrics\s*\d+(\.\d+)?k\s*$", "", s, flags=re.IGNORECASE)
RemoveLyricsCount(s) ==
    LET Found(j) == LyricsCountAt(s, j)
        Cut(j) == IF j = 0 THEN s ELSE SubSeq(s, 1, SpaceRunStart(s, j) - 1)
    IN  Cut(FirstIndex(1, Len(s), Found))

\* clean_track_name of scripts/01_get_tracks.py
clean_track_name(name) ==
    IF name = None THEN <<>>
    ELSE Strip(CollapseSpace(
             RemoveLyricsCount(
                 RemoveDashSuffix(
                     RemoveBracketed(
                         RemoveBracketed(CollapseSpace(Strip(name)), FeatKeywords),
                         NoiseKeywords)))))

\* The decimal digits of n >= 0.
RECURSIVE DecimalString(_)
DecimalString(n) ==
    IF n < 10 THEN <<DigitSeq[n + 1]>>
    ELSE DecimalString(n \div 10) \o <<DigitSeq[(n % 10) + 1]>>

\* f"{n:02d}": the sign and the digits, zero-filled to two characters.
TwoDigits(n) ==
    IF n < 0 THEN <<"-">> \o DecimalString(-n)
    ELSE IF n < 10 THEN <<"0">> \o DecimalString(n)
    ELSE DecimalString(n)

\* An identifier that keeps only the last digit of the track number.
make_track_id_last_digit(album_slug, track_number) ==
    album_slug \o <<"_">> \o <<DigitSeq[(track_number % 10) + 1]>>

\* f"{album_slug}_{track_number:02d}"
make_track_id(album_slug, track_number) ==
    album_slug \o <<"_">> \o TwoDigits(track_number)

(***************************************************************************)
(* scripts/02_match_youtube_videos.py: title matching                      *)
(***************************************************************************)
Mojibake == <<"U+00E2", "U+20AC", "U+2122">>

\* s.replace("â€™", "'")
ReplaceMojibake(s) ==
    LET Keep(i) == ~(MatchAt(s, i - 1, Mojibake) \/ MatchAt(s, i - 2, Mojibake))
        Test(q) == Keep(q[1])
        Quoted(sel) ==
            [k \in 1..Len(sel) |-> IF MatchAt(s, sel[k][1], Mojibake) THEN "'" ELSE sel[k][2]]
    IN  Quoted(SelectSeq([i \in 1..Len(s) |-> <<i, s[i]>>], Test))

\* re.sub(r"[^a-z0-9\s']", " ", s)
BlankOthers(s) ==
    [i \in 1..Len(s) |->
        IF s[i] \in AsciiLower \cup Digits \cup {"'"} \/ IsSpace(s[i]) THEN s[i] ELSE " "]

normalize(s) ==
    IF s = None THEN <<>>
    ELSE Strip(CollapseSpace(BlankOthers(ReplaceMojibake(ToLower(s)))))

(***************************************************************************)
(* scripts/04_get_lyrics.py: the track name the lyric script searches for  *)
(***************************************************************************)
\* r"\b\d+(\.\d+)?[KMB]\b" at index i of s, ignoring case: the index of the
\* unit letter, 0 if there is no match at i.
ViewCountEnd(s, i) ==
    LET UnitAt(e) ==
            IF e # 0 /\ e <= Len(s) /\ Lower(s[e]) \in {"k", "m", "b"} /\ BoundaryAfter(s, e)
            THEN e ELSE 0
    IN  UnitAt(IF i <= Len(s) /\ IsDigit(s[i]) /\ BoundaryBefore(s, i)
               THEN NumberEnd(s, i) ELSE 0)

\* re.sub(r"\b\d+(\.\d+)?[KMB]\b", "", s, flags=re.IGNORECASE) from index p on
RECURSIVE ViewCountsFrom(_, _)
ViewCountsFrom(s, p) ==
    LET Found(i) == ViewCountEnd(s, i) # 0
        Cut(i) == IF i = 0 THEN SubSeq(s, p, Len(s))
                  ELSE SubSeq(s, p, i - 1) \o ViewCountsFrom(s, ViewCountEnd(s, i) + 1)
    IN  Cut(FirstIndex(p, Len(s), Found))

\* re.sub(r"\bLyrics\b", "", s, flags=re.IGNORECASE)
RemoveLyricsWord(s) ==
    LET Word(i) == MatchAtI(s, i, Chars("lyrics")) /\ BoundaryBefore(s, i)
                       /\ BoundaryAfter(s, i + 5)
        Keep(i) == ~\E j \in (i - 5)..i : j >= 1 /\ Word(j)
    IN  KeepIndices(s, Keep)

\* re.sub(r"\s+\)", ")", s): white space that runs up to a ")" goes.
TightenBeforeClose(s) ==
    LET Keep(i) == ~(IsSpace(s[i]) /\ SkipSpace(s, i) <= Len(s) /\ s[SkipSpace(s, i)] = ")")
    IN  KeepIndices(s, Keep)

\* re.sub(r"\(\s+", "(", s): white space that follows a "(" goes.
TightenAfterOpen(s) ==
    LET Keep(i) == ~(IsSpace(s[i]) /\ SpaceRunStart(s, i) > 1 /\ s[SpaceRunStart(s, i) - 1] = "(")
    IN  KeepIndices(s, Keep)

\* re.sub(r"\s{2,}", " ", s): a run of two or more white-space characters
\* becomes one space; a single one stays as it is.
CollapseRuns(s) ==
    LET Keep(i) == ~(IsSpace(s[i]) /\ i > 1 /\ IsSpace(s[i - 1]))
        InRun(i) == IsSpace(s[i]) /\ i < Len(s) /\ IsSpace(s[i + 1])
        Test(q) == Keep(q[1])
        Spaces(sel) == [k \in 1..Len(sel) |-> IF InRun(sel[k][1]) THEN " " ELSE sel[k][2]]
    IN  Spaces(SelectSeq([i \in 1..Len(s) |-> <<i, s[i]>>], Test))

IsEdgeChar(c) == c \in {" ", "-", "U+2013", "U+2014"}

\* s.strip(" -–—")
StripEdges(s) ==
    LET Inner(k) == ~IsEdgeChar(s[k])
    IN  IF \E k \in 1..Len(s) : Inner(k)
        THEN SubSeq(s, FirstIndex(1, Len(s), Inner),
                    CHOOSE k \in 1..Len(s) : Inner(k) /\ \A m \in (k + 1)..Len(s) : ~Inner(m))
        ELSE <<>>

\* clean_track_name of scripts/04_get_lyrics.py
lyrics_clean_track_name(name) ==
    IF name = None THEN <<>>
    ELSE StripEdges(CollapseRuns(
             TightenAfterOpen(
                 TightenBeforeClose(
                     RemoveLyricsWord(
                         ViewCountsFrom(CollapseSpace(Strip(name)), 1))))))

(***************************************************************************)
(* State                                                                   *)
(***************************************************************************)
VARIABLES
    raw,            \* the text handed to clean_lyrics_text or to the metrics
    track_name,     \* the track title handed to clean_lyrics_text
    copies,         \* how many copies of raw, one per line, the measured text holds
    cleaned,        \* lyrics: the value clean_lyrics_text returned (None before)
    recleaned,      \* the value of a second pass over cleaned (None before)
    metrics,        \* word_count, unique_word_count, repetition_ratio of a text
    tokens,         \* _tokenize_words of the measured text (None before)
    pc,             \* how far the run over this input has come
    tracks_csv,     \* data/tracks.csv: whether it exists, and its rows
    youtube_videos_csv,             \* data/youtube_videos.csv, likewise
    youtube_stats_snapshots_csv,    \* data/youtube_stats_snapshots.csv, likewise
    lyrics_csv,     \* data/lyrics.csv, likewise
    track_pairs,    \* the tracklist the last run of the track script extracted
    script,         \* the script that is running, "none" between runs
    targets,        \* the lyric script's tracks still to process
    write_header,   \* the lyric script's write_header
    runs,           \* how many script runs have started: the clock
    db,             \* the four tables of the database, as committed
    tx,             \* the four tables as the loader's open transaction sees them
    load_pc,        \* where the loader stands: "idle", "open", "loaded", "failed"
    executed,       \* how many statements of the loader's transaction have succeeded
    loads           \* how many loader runs have started

normalizer_vars == <<raw, track_name, copies, cleaned, recleaned, metrics, tokens, pc>>

files == <<tracks_csv, youtube_videos_csv, youtube_stats_snapshots_csv, lyrics_csv>>

loader_vars == <<db, tx, load_pc, executed, loads>>

pipeline_vars == <<files, track_pairs, script, targets, write_header, runs, loader_vars>>

vars == <<normalizer_vars, pipeline_vars>>

\* A file that does not exist, and a file written with a header and rows.
NoFile == [exists |-> FALSE, rows |-> <<>>]

File(rows) == [exists |-> TRUE, rows |-> rows]

\* What a run of the track script extracted: nothing when it raised first.
NoPairs == [raised |-> TRUE, pairs |-> <<>>]

Pairs(pairs) == [raised |-> FALSE, pairs |-> pairs]

\* The database before any load: four empty tables.
EmptyTables == [tracks |-> <<>>, lyrics |-> <<>>, youtube_videos |-> <<>>,
                youtube_stats_snapshots |-> <<>>]

\* The data directory before any script has run.
NoPipeline ==
    /\ db = EmptyTables
    /\ tx = EmptyTables
    /\ load_pc = "idle"
    /\ executed = 0
    /\ loads = 0
    /\ tracks_csv = NoFile
    /\ youtube_videos_csv = NoFile
    /\ youtube_stats_snapshots_csv = NoFile
    /\ lyrics_csv = [exists |-> FALSE, header |-> FALSE, rows |-> <<>>]
    /\ track_pairs = NoPairs
    /\ script = "none"
    /\ targets = <<>>
    /\ write_header = FALSE
    /\ runs = 0

(***************************************************************************)
(* Inputs of the normalizer                                                *)
(***************************************************************************)
\* The longest raw text of the general family, in lines.
MaxLines == 2

Titles ==
    {Chars("Don't Be Dumb"),
     Chars("DON") \o <<"U+2019">> \o Chars("T BE DUMB"),
     <<>>}

LinePool ==
    {Chars("I love you"),
     Chars("You love me"),
     Chars("[Chorus: A, B]"),
     Chars("[Verse]"),
     Chars("[Rocky]"),
     Chars("[Chorus: A,"),
     Chars("B]"),
     Chars("oh [Verse 2] oh"),
     Chars("Embed"),
     Chars("You might also like"),
     Chars("wait for it..."),
     Chars("Deutsch"),
     Chars("12 Contributors"),
     Chars("( yeah )"),
     Chars("The music video premiered in May"),
     <<>>,
     Chars("DON'T BE DUMB LYRICS"),
     Chars("Don") \o <<"U+2019">> \o Chars("t Be Dumb Lyrics"),
     Chars("DON") \o <<"U+2019">> \o Chars("T BE DUMB is the title track"),
     Chars("Don't Be Dumb is the lead single from the album, released in 2023.")}

\* The texts of at most n lines of the pool.
RECURSIVE LineSeqs(_)
LineSeqs(n) ==
    IF n = 0 THEN {<<>>}
    ELSE LineSeqs(n - 1) \cup
         {Append(ls, l) : ls \in {x \in LineSeqs(n - 1) : Len(x) = n - 1}, l \in LinePool}

\* The section-header example and the leading-blurb example; texts of nine
\* and ten lines that end in a teaser line; a role header over two lines.
ExampleTexts ==
    {Chars("[Chorus: A, B]\nI love you\n[Verse]\nYou love me"),
     Chars("Don't Be Dumb is the lead single from the album, released in 2023.\nI love you\nYou love me"),
     Chars("go now\nI love you\nYou love me\none two\nthree four\nfive six\nseven eight\nnine ten\nhold on..."),
     Chars("I love you\nYou love me\none two\nthree four\nfive six\nseven eight\nnine ten\nwait for it...\nhold on..."),
     Chars("wait for it...\nI love you\nYou love me\none two\nthree four\nfive six\nseven eight\nnine ten\ngo now\nhold on..."),
     Chars("[Rocky,\nTyler]\nI love you")}

RawTexts ==
    {None} \cup {JoinLines(ls) : ls \in LineSeqs(MaxLines)} \cup ExampleTexts

NoMetrics == [word_count |-> -1, unique_word_count |-> -1, repetition_ratio |-> -1]

MetricsOf(text) ==
    [word_count |-> count_words(text),
     unique_word_count |-> count_unique_words(text),
     repetition_ratio |-> repetition_ratio(text)]

(***************************************************************************)
(* The normalizer run on one input: main's lines 564 and 574-583, then a    *)
(* second pass over the result.                                            *)
(***************************************************************************)
InitClean ==
    /\ raw \in RawTexts
    /\ track_name \in Titles
    /\ copies = 1
    /\ cleaned = None
    /\ recleaned = None
    /\ metrics = NoMetrics
    /\ tokens = None
    /\ pc = "input"
    /\ NoPipeline

\* lyrics = clean_lyrics_text(raw_lyrics, track_name)
CleanStep ==
    /\ pc = "input"
    /\ cleaned' = clean_lyrics_text(raw, track_name)
    /\ pc' = "cleaned"
    /\ UNCHANGED <<raw, track_name, copies, recleaned, metrics, tokens, pipeline_vars>>

\* word_count, unique_word_count, repetition_ratio of lyrics
MeasureStep ==
    /\ pc = "cleaned"
    /\ metrics' = MetricsOf(cleaned)
    /\ pc' = "measured"
    /\ UNCHANGED <<raw, track_name, copies, cleaned, recleaned, tokens, pipeline_vars>>

\* clean_lyrics_text run on its own output
RecleanStep ==
    /\ pc = "measured"
    /\ recleaned' = clean_lyrics_text(cleaned, track_name)
    /\ pc' = "recleaned"
    /\ UNCHANGED <<raw, track_name, copies, cleaned, metrics, tokens, pipeline_vars>>

NextClean ==
    \/ CleanStep
    \/ MeasureStep
    \/ RecleanStep

SpecClean == InitClean /\ [][NextClean]_vars

(***************************************************************************)
(* The lyric metrics on one text.  The measured text is raw, or `copies`   *)
(* copies of raw joined by newlines, held as the pair instead of written   *)
(* out: a newline ends a word, so the words of the copies are the words of *)
(* raw, `copies` times over.                                               *)
(***************************************************************************)
\* The longest text of the metrics family, in words.
MaxWords == 3

\* A number of copies that brings a one-word text just below two million words.
ManyCopies == 1999999

\* A number of copies at which the ratio of a one-word text, 1 - 1/640 =
\* 0.9984375, lies halfway between two millionths, and 1/640 is no float.
TieCopies == 640

CopyCounts == {1, 2, TieCopies, ManyCopies, ManyCopies + 2}

WordPool ==
    {Chars("I"), Chars("love"), Chars("LOVE"), Chars("you,"), Chars("don't"),
     Chars("'n'"), Chars("'"), Chars("2x-")}

\* " ".join(words)
RECURSIVE JoinWords(_)
JoinWords(words) ==
    IF Len(words) = 0 THEN <<>>
    ELSE IF Len(words) = 1 THEN words[1]
    ELSE words[1] \o <<" ">> \o JoinWords(Tail(words))

RECURSIVE WordSeqs(_)
WordSeqs(n) ==
    IF n = 0 THEN {<<>>}
    ELSE WordSeqs(n - 1) \cup
         {Append(ws, w) : ws \in {x \in WordSeqs(n - 1) : Len(x) = n - 1}, w \in WordPool}

MetricTexts ==
    {JoinWords(ws) : ws \in WordSeqs(MaxWords)} \cup {Chars("I love you I love you")}

\* The three metrics of k copies of text, one per line.
MetricsOfCopies(text, k) ==
    [word_count |-> k * count_words(text),
     unique_word_count |-> count_unique_words(text),
     repetition_ratio |-> RatioOf(count_unique_words(text), k * count_words(text))]

InitMetrics ==
    /\ raw \in MetricTexts
    /\ copies \in CopyCounts
    /\ track_name = <<>>
    /\ cleaned = None
    /\ recleaned = None
    /\ metrics = NoMetrics
    /\ tokens = None
    /\ pc = "text"
    /\ NoPipeline

MeasureText ==
    /\ pc = "text"
    /\ tokens' = _tokenize_words(raw)
    /\ metrics' = MetricsOfCopies(raw, copies)
    /\ pc' = "measured_text"
    /\ UNCHANGED <<raw, track_name, copies, cleaned, recleaned, pipeline_vars>>

NextMetrics == MeasureText

SpecMetrics == InitMetrics /\ [][NextMetrics]_vars

(***************************************************************************)
(* Properties of the normalizer and of the metrics                         *)
(***************************************************************************)
ZeroMetrics == [word_count |-> 0, unique_word_count |-> 0, repetition_ratio |-> 0]

\* The lines of a returned text.
LinesOf(text) == IF text = None THEN <<>> ELSE SplitLines(text)

\* C1: clean_lyrics_text returns a string for every input, and for an empty
\* or missing raw text it returns the empty string, whose three metrics are
\* all zero.
C1_EmptyInputGivesEmpty ==
    /\ pc \in {"cleaned", "measured", "recleaned"} => cleaned # None
    /\ (pc \in {"cleaned", "measured", "recleaned"} /\ raw \in {None, <<>>})
           => cleaned = <<>>
    /\ (pc \in {"measured", "recleaned"} /\ raw \in {None, <<>>})
           => metrics = ZeroMetrics

C1_Witness ==
    /\ pc = "measured"
    /\ raw = None
    /\ cleaned = <<>>
    /\ metrics = ZeroMetrics

SectionHeaderLines == {Chars("[Chorus: A, B]"), Chars("[Verse]")}

PlainLyricLines == {Chars("I love you"), Chars("You love me")}

IsPlainLyric(ln) == ln \in PlainLyricLines

\* A text of bracketed section headers and plain lyric lines, some of each.
IsHeaderLyricText(text) ==
    /\ text # None
    /\ LET lines == SplitLines(text)
       IN  /\ \A i \in 1..Len(lines) : lines[i] \in SectionHeaderLines \cup PlainLyricLines
           /\ \E i \in 1..Len(lines) : lines[i] \in SectionHeaderLines
           /\ \E i \in 1..Len(lines) : lines[i] \in PlainLyricLines

\* C2: for a text of section headers and lyric lines, such as
\* "[Chorus: A, B]\nI love you\n[Verse]\nYou love me", the returned value is
\* exactly the lyric lines joined by newlines ("I love you\nYou love me"),
\* with nothing before the first lyric line and nothing after the last.
C2_HeadersStrippedExactly ==
    (pc \in {"cleaned", "measured", "recleaned"} /\ IsHeaderLyricText(raw))
        => cleaned = JoinLines(SelectSeq(SplitLines(raw), IsPlainLyric))

\* C3: cleaning is idempotent: a second pass over a cleaned text, with the
\* same title, returns the cleaned text unchanged.
C3_Idempotent == pc = "recleaned" => recleaned = cleaned

\* Line ln is the echo of title: after lower-casing and folding curly quotes
\* and dashes, it reads "<title> lyrics".
IsEchoOf(ln, title) ==
    _norm_for_title_match(ln) = _norm_for_title_match(title) \o Chars(" lyrics")

\* C6: no line of the returned text is the title echo "<title> lyrics",
\* whatever the letter case or the quote style of the line or of the title.
C6_NoTitleEcho ==
    pc \in {"cleaned", "measured", "recleaned"} =>
        \A i \in 1..Len(LinesOf(cleaned)) : ~IsEchoOf(LinesOf(cleaned)[i], track_name)

\* An echo line written in another case or quote style than the title was in
\* the raw text, next to a lyric line that was kept.
C6_Witness ==
    /\ pc = "cleaned"
    /\ raw # None
    /\ \E i \in 1..Len(SplitLines(raw)) :
           /\ IsEchoOf(SplitLines(raw)[i], track_name)
           /\ SplitLines(raw)[i] # track_name \o Chars(" lyrics")
           /\ ToLower(SplitLines(raw)[i]) # ToLower(track_name) \o Chars(" lyrics")
    /\ \E i \in 1..Len(LinesOf(cleaned)) : LinesOf(cleaned)[i] \in PlainLyricLines

\* A line that contains the title as written and a narrative phrase.
IsTitleBlurb(ln, title) ==
    /\ Strip(title) # <<>>
    /\ Contains(ln, Strip(title))
    /\ ContainsAny(ToLower(ln), bad_phrases)

SentinelLines == {Chars("Embed"), Chars("You might also like")}

\* C7: a first line that contains the track title and a narrative phrase is
\* absent from the returned text, and the lyric lines after it are returned
\* in their order.
C7_LeadingBlurbRemoved ==
    (/\ pc \in {"cleaned", "measured", "recleaned"}
     /\ raw # None
     /\ Len(SplitLines(raw)) >= 2
     /\ IsTitleBlurb(SplitLines(raw)[1], track_name)
     /\ \A i \in 1..Len(SplitLines(raw)) : SplitLines(raw)[i] \notin SentinelLines)
        => /\ \A i \in 1..Len(LinesOf(cleaned)) :
                  LinesOf(cleaned)[i] # Strip(SplitLines(raw)[1])
           /\ SelectSeq(LinesOf(cleaned), IsPlainLyric)
                  = SelectSeq(Tail(SplitLines(raw)), IsPlainLyric)

\* Where the tokens of a text start: at the first character of each maximal
\* run of letters, digits and apostrophes.
TokenStarts(text) ==
    {i \in 1..Len(text) :
        /\ IsTokenChar(text[i])
        /\ (i = 1 \/ ~IsTokenChar(text[i - 1]))}

\* The run that starts at i.
RunAt(text, i) ==
    SubSeq(text, i,
           FirstIndex(i, Len(text) + 1, LAMBDA j : j > Len(text) \/ ~IsTokenChar(text[j])) - 1)

\* C4, as the code has it: the repetition ratio r satisfies 0 <= r <= 1, and
\* r < 1 for every text of fewer than two million words; r = 0 when the text
\* has no words and when all its lower-cased words are distinct.
C4_RatioRange ==
    pc = "measured_text" =>
        /\ metrics.repetition_ratio \in 0..RatioOne
        /\ metrics.word_count < 2 * RatioOne => metrics.repetition_ratio < RatioOne
        /\ (metrics.word_count = 0 \/ metrics.unique_word_count = metrics.word_count)
               => metrics.repetition_ratio = 0

\* A text with repeated words, measured: its ratio lies strictly between 0 and 1.
C4_Witness ==
    /\ pc = "measured_text"
    /\ metrics.unique_word_count < metrics.word_count
    /\ metrics.repetition_ratio > 0
    /\ metrics.repetition_ratio < RatioOne

\* C4, as stated: 0 <= r < 1 for every text, and r = 0 when the text has no
\* words and when all its lower-cased words are distinct.
C4_RatioBelowOne ==
    pc = "measured_text" =>
        /\ metrics.repetition_ratio >= 0
        /\ metrics.repetition_ratio < RatioOne
        /\ (metrics.word_count = 0 \/ metrics.unique_word_count = metrics.word_count)
               => metrics.repetition_ratio = 0

\* C5: word_count is the number of tokens of the text and unique_word_count
\* the number of distinct tokens after lower-casing, so that words differing
\* only in letter case count once; "I love you I love you" has 6 words, 3
\* distinct words and repetition ratio 0.5.
C5_WordCounts ==
    (pc = "measured_text" /\ copies = 1) =>
        /\ metrics.word_count = Cardinality(TokenStarts(raw))
        /\ metrics.unique_word_count
               = Cardinality({ToLower(RunAt(raw, i)) : i \in TokenStarts(raw)})
        /\ metrics.unique_word_count <= metrics.word_count
        /\ raw = Chars("I love you I love you")
               => metrics = [word_count |-> 6, unique_word_count |-> 3,
                             repetition_ratio |-> RatioOne \div 2]

\* A measured text in which a word returns in another letter case.
C5_Witness ==
    /\ pc = "measured_text"
    /\ copies = 1
    /\ raw = Chars("love LOVE you,")
    /\ metrics.word_count = 3
    /\ metrics.unique_word_count = 2

(***************************************************************************)
(* scripts/01_get_tracks.py: the track script                              *)
(***************************************************************************)
\* The track numbers find_tracks_in_state and the fallback accept.
MinTrackNumber == 1

MaxTrackNumber == 50

InRange(tn) == MinTrackNumber <= tn /\ tn <= MaxTrackNumber

\* dict.setdefault over the pairs in order: of the pairs that pass Accept,
\* the first seen of each track number.
FirstSeen(pairs, Accept(_)) ==
    LET Test(q) == /\ Accept(q[2])
                   /\ \A j \in 1..(q[1] - 1) : ~(Accept(pairs[j]) /\ pairs[j][1] = q[2][1])
        Chosen(sel) == [k \in 1..Len(sel) |-> sel[k][2]]
    IN  Chosen(SelectSeq([i \in 1..Len(pairs) |-> <<i, pairs[i]>>], Test))

\* sorted(d.items(), key=lambda t: t[0]) for pairs with distinct numbers
RECURSIVE SortedPairs(_)
SortedPairs(pairs) ==
    IF Len(pairs) = 0 THEN <<>>
    ELSE LET Least(i) == \A j \in 1..Len(pairs) : pairs[i][1] <= pairs[j][1]
             First(i) == <<pairs[i]>> \o SortedPairs(RemoveAt(pairs, i))
         IN  First(FirstIndex(1, Len(pairs), Least))

\* Lines 187-201 of find_tracks_in_state, on the candidates that walk
\* collected: the empty sequence stands for None, when none is in range.
find_tracks_in_state(candidates) ==
    LET Accept(pair) == InRange(pair[1])
    IN  SortedPairs(FirstSeen(candidates, Accept))

\* int(digits)
RECURSIVE DigitsValue(_)
DigitsValue(digits) ==
    IF Len(digits) = 0 THEN 0
    ELSE 10 * DigitsValue(SubSeq(digits, 1, Len(digits) - 1))
         + (CHOOSE d \in 0..9 : DigitSeq[d + 1] = digits[Len(digits)])

\* re.match(r"^(\d+)\.?\s+(.*)$", text) on the text of a tracklist row: the
\* index where the title starts, 0 when the row does not match.
TitleStart(text) ==
    LET Title(d, a, t) ==
            IF d > 1 /\ t > a /\ ~Contains(SubSeq(text, t, Len(text)), <<NL>>) THEN t ELSE 0
        AfterDot(d, a) == Title(d, a, SkipSpace(text, a))
        AfterDigits(d) == AfterDot(d, IF d <= Len(text) /\ text[d] = "." THEN d + 1 ELSE d)
    IN  AfterDigits(SkipDigits(text, 1))

\* (int(m.group(1)), m.group(2)) of a row that matches
RowPair(text) ==
    <<DigitsValue(SubSeq(text, 1, SkipDigits(text, 1) - 1)),
      SubSeq(text, TitleStart(text), Len(text))>>

\* The fallback of scrape_album_tracklist (lines 231-250) on the texts of the
\* tracklist rows.
FallbackPairs(row_texts) ==
    LET Matches(text) == TitleStart(text) # 0
        Parsed(matched) == [i \in 1..Len(matched) |-> RowPair(matched[i])]
        Accept(pair) == InRange(pair[1]) /\ pair[2] # <<>>
    IN  SortedPairs(FirstSeen(Parsed(SelectSeq(row_texts, Matches)), Accept))

\* scrape_album_tracklist on a fetched album page: whether it holds a
\* preloaded state, the candidates walk finds in it, and its tracklist rows.
scrape_album_tracklist(page) ==
    LET Fallback(dedup) == IF Len(dedup) > 0 THEN Pairs(dedup) ELSE NoPairs
        Primary(tracks) == IF Len(tracks) > 0 THEN Pairs(tracks)
                           ELSE Fallback(FallbackPairs(page.row_texts))
    IN  Primary(IF page.has_state THEN find_tracks_in_state(page.candidates) ELSE <<>>)

\* Lines 293-304 of main: one row per extracted pair.
TrackRows(pairs) ==
    [i \in 1..Len(pairs) |->
        [track_id |-> make_track_id(ALBUM_SLUG, pairs[i][1]),
         track_number |-> pairs[i][1],
         track_name |-> clean_track_name(pairs[i][2]),
         track_name_raw |-> pairs[i][2]]]

\* DataFrame.sort_values("track_number"), which keeps every row
RECURSIVE SortByNumber(_)
SortByNumber(rows) ==
    IF Len(rows) = 0 THEN <<>>
    ELSE LET Least(i) == \A j \in 1..Len(rows) : rows[i].track_number <= rows[j].track_number
             First(i) == <<rows[i]>> \o SortByNumber(RemoveAt(rows, i))
         IN  First(FirstIndex(1, Len(rows), Least))

\* df["track_id"].duplicated().any()
HasDuplicateId(rows) ==
    \E i \in 1..Len(rows) : \E j \in (i + 1)..Len(rows) : rows[i].track_id = rows[j].track_id

\* (df["track_name"].astype(str).str.len() == 0).any()
HasEmptyName(rows) == \E i \in 1..Len(rows) : Len(rows[i].track_name) = 0

\* What main leaves in tracks.csv for the extracted pairs: the new rows, or
\* the file as it was when a validation raises.
TracksFileAfter(old, pairs) ==
    LET Validated(df) == IF HasDuplicateId(df) \/ HasEmptyName(df) THEN old ELSE File(df)
    IN  Validated(SortByNumber(TrackRows(pairs)))

\* What the Genius API and the album page give to one run: a failure (no
\* token, no search result, no album, an HTTP error) or a page.
FailedFetch == [ok |-> FALSE, has_state |-> FALSE, candidates |-> <<>>, row_texts |-> <<>>]

StatePage(candidates) ==
    [ok |-> TRUE, has_state |-> TRUE, candidates |-> candidates, row_texts |-> <<>>]

HtmlPage(row_texts) ==
    [ok |-> TRUE, has_state |-> FALSE, candidates |-> <<>>, row_texts |-> row_texts]

AlbumFetches ==
    {FailedFetch,
     StatePage(<<<<1, Chars("Intro")>>, <<2, Chars("Love (feat. X)")>>>>),
     StatePage(<<<<2, Chars("Love (feat. X)")>>, <<1, Chars("Intro")>>, <<2, Chars("Other")>>,
                 <<0, Chars("Zero")>>, <<51, Chars("Far")>>>>),
     HtmlPage(<<Chars("1. Intro"), Chars("1 Other"), Chars("Credits"), Chars("51. Far"),
                Chars("3  Outro - Official Audio")>>),
     StatePage(<<<<1, Chars("Intro")>>, <<4, Chars("[Explicit]")>>>>),
     [ok |-> TRUE, has_state |-> TRUE, candidates |-> <<<<0, Chars("Zero")>>>>,
      row_texts |-> <<Chars("Tracklist")>>]}

\* The number of script runs of a behaviour.
MaxRuns == 4

\* One run of scripts/01_get_tracks.py.
RunTracks ==
    /\ script = "none"
    /\ runs < MaxRuns
    /\ \E fetch \in AlbumFetches :
           /\ track_pairs' = IF fetch.ok THEN scrape_album_tracklist(fetch) ELSE NoPairs
           /\ tracks_csv' = IF track_pairs'.raised THEN tracks_csv
                            ELSE TracksFileAfter(tracks_csv, track_pairs'.pairs)
    /\ runs' = runs + 1
    /\ UNCHANGED <<youtube_videos_csv, youtube_stats_snapshots_csv, lyrics_csv,
                   script, targets, write_header, normalizer_vars, loader_vars>>

(***************************************************************************)
(* scripts/02_match_youtube_videos.py: the video-matching script           *)
(***************************************************************************)
\* The shortest video, in seconds, that a track is matched to.
MinDurationSeconds == 30

\* (durations.get(video_id) or 0): durations holds the videos whose duration
\* the API returned and isodate could parse.
DurationOrZero(durations, video_id) ==
    IF video_id \in DOMAIN durations THEN durations[video_id] ELSE 0

\* Lines 164-170 of main: the index of the first playlist video whose title
\* contains the track name and that is long enough, 0 if there is none.
ChosenVideo(track, album_videos, durations) ==
    LET FirstFit(track_norm) ==
            LET Fits(k) ==
                    /\ Contains(normalize(album_videos[k].title), track_norm)
                    /\ DurationOrZero(durations, album_videos[k].video_id) >= MinDurationSeconds
            IN  FirstIndex(1, Len(album_videos), Fits)
    IN  FirstFit(normalize(track.track_name))

CHANNEL_TITLE == Chars("A$AP Rocky (Releases)")

\* Lines 172-182 of main: the row of one track.
VideoRow(track, album_videos, durations) ==
    LET Row(k) ==
            [track_id |-> track.track_id,
             youtube_video_id |-> IF k # 0 THEN album_videos[k].video_id ELSE None,
             youtube_title |-> IF k # 0 THEN album_videos[k].title ELSE None,
             channel_title |-> CHANNEL_TITLE,
             published_at |-> IF k # 0 THEN album_videos[k].published_at ELSE None,
             is_official |-> TRUE,
             match_confidence |-> IF k # 0 THEN "high" ELSE "none"]
    IN  Row(ChosenVideo(track, album_videos, durations))

\* The rows of a loop that appended a row for the matched tracks only.
VideoRows_matched(track_rows, album_videos, durations) ==
    LET IsMatched(row) == row.match_confidence = "high"
        Matched(sorted) == [i \in 1..Len(sorted) |-> VideoRow(sorted[i], album_videos, durations)]
    IN  SelectSeq(Matched(SortByNumber(track_rows)), IsMatched)

\* Lines 159-182 of main: one row per track, in the order of track numbers.
VideoRows(track_rows, album_videos, durations) ==
    LET Matched(sorted) == [i \in 1..Len(sorted) |-> VideoRow(sorted[i], album_videos, durations)]
    IN  Matched(SortByNumber(track_rows))

Video(video_id, title) ==
    [video_id |-> Chars(video_id), title |-> Chars(title),
     published_at |-> Chars("2026-01-16T05:00:00Z")]

\* What the YouTube API gives to one run: a failure (no key, an HTTP error)
\* or the videos of the album playlist and their durations.
Playlists ==
    {[ok |-> FALSE, album_videos |-> <<>>, durations |-> <<>>],
     [ok |-> TRUE,
      album_videos |-> <<Video("vidA", "A$AP Rocky - Intro (Official Audio)"),
                         Video("vidB", "LOVE")>>,
      durations |-> (Chars("vidA") :> 120) @@ (Chars("vidB") :> 200)],
     [ok |-> TRUE,
      album_videos |-> <<Video("vidS", "Intro"), Video("vidC", "intro / love / outro")>>,
      durations |-> (Chars("vidS") :> 29) @@ (Chars("vidC") :> 30)],
     [ok |-> TRUE,
      album_videos |-> <<Video("vidA", "Intro"), Video("vidB", "LOVE")>>,
      durations |-> (Chars("vidB") :> 200)]}

\* One run of scripts/02_match_youtube_videos.py: without tracks.csv or
\* without an answer of the API it raises before it writes.
RunMatch ==
    /\ script = "none"
    /\ runs < MaxRuns
    /\ \E playlist \in Playlists :
           youtube_videos_csv' =
               IF tracks_csv.exists /\ playlist.ok
               THEN File(VideoRows(tracks_csv.rows, playlist.album_videos, playlist.durations))
               ELSE youtube_videos_csv
    /\ runs' = runs + 1
    /\ UNCHANGED <<tracks_csv, youtube_stats_snapshots_csv, lyrics_csv, track_pairs,
                   script, targets, write_header, normalizer_vars, loader_vars>>

(***************************************************************************)
(* scripts/03_pull_youtube_stats.py: the stats script                      *)
(***************************************************************************)
FORCE_RUN == FALSE

EVENING_START_UTC == 18

EVENING_END_UTC == 22

\* A counter the API's answer does not hold (likes or comments turned off).
NoCount == -1

\* videos_df["youtube_video_id"].dropna().astype(str).unique().tolist()
VideoIdsOf(video_rows) ==
    LET Test(q) == /\ q[2].youtube_video_id # None
                   /\ \A j \in 1..(q[1] - 1) :
                          video_rows[j].youtube_video_id # q[2].youtube_video_id
        Ids(sel) == [k \in 1..Len(sel) |-> sel[k][2].youtube_video_id]
    IN  Ids(SelectSeq([i \in 1..Len(video_rows) |-> <<i, video_rows[i]>>], Test))

\* Lines 122-136 of main: a row for each video id the answer holds.
SnapshotRows(video_ids, stats_map, now_utc) ==
    LET Known(vid) == vid \in DOMAIN stats_map
        Rows(known) ==
            [k \in 1..Len(known) |->
                [youtube_video_id |-> known[k],
                 captured_at |-> now_utc,
                 view_count |-> stats_map[known[k]].view_count,
                 like_count |-> stats_map[known[k]].like_count,
                 comment_count |-> stats_map[known[k]].comment_count]]
    IN  Rows(SelectSeq(video_ids, Known))

\* DataFrame.to_csv(OUT_STATS), which replaces what the file held.
OverwriteCsv(file, rows) == File(rows)

\* Lines 145-148 of main: to_csv in mode "a" when the file exists, and a
\* new file otherwise.
AppendCsv(file, rows) == IF file.exists THEN File(file.rows \o rows) ELSE File(rows)

\* What main leaves in youtube_stats_snapshots.csv.
\* The file after a run that did not look at the hour.
StatsFileAfter_anyhour(old, videos_file, now_utc, answer) ==
    LET Saved(rows) == IF Len(rows) = 0 THEN old ELSE AppendCsv(old, rows)
        Pulled(video_ids) ==
            IF Len(video_ids) = 0 \/ ~answer.ok THEN old
            ELSE Saved(SnapshotRows(video_ids, answer.stats_map, now_utc))
    IN  IF ~videos_file.exists THEN old
        ELSE Pulled(VideoIdsOf(videos_file.rows))

StatsFileAfter(old, videos_file, now_utc, answer) ==
    LET Saved(rows) == IF Len(rows) = 0 THEN old ELSE AppendCsv(old, rows)
        Pulled(video_ids) ==
            IF Len(video_ids) = 0 \/ ~answer.ok THEN old
            ELSE Saved(SnapshotRows(video_ids, answer.stats_map, now_utc))
    IN  IF ~videos_file.exists THEN old
        ELSE IF ~FORCE_RUN /\ ~(EVENING_START_UTC <= now_utc.hour /\ now_utc.hour < EVENING_END_UTC)
             THEN old
        ELSE Pulled(VideoIdsOf(videos_file.rows))

\* The UTC hours at which the model starts the stats script.
Hours == {EVENING_START_UTC - 1, EVENING_START_UTC, EVENING_END_UTC - 1, EVENING_END_UTC}

Counts(views, likes, comments) ==
    [view_count |-> views, like_count |-> likes, comment_count |-> comments]

\* What the YouTube API answers to one run: a failure, or statistics for
\* some of the videos.
StatsAnswers ==
    {[ok |-> FALSE, stats_map |-> <<>>],
     [ok |-> TRUE, stats_map |-> <<>>],
     [ok |-> TRUE, stats_map |-> (Chars("vidA") :> Counts(100, 5, 1))],
     [ok |-> TRUE,
      stats_map |-> (Chars("vidA") :> Counts(100, 5, 1)) @@ (Chars("vidB") :> Counts(7, NoCount, NoCount))
                    @@ (Chars("vidC") :> Counts(0, NoCount, 2))]}

\* One run of scripts/03_pull_youtube_stats.py, started at some hour.
RunStats ==
    /\ script = "none"
    /\ runs < MaxRuns
    /\ \E hour \in Hours : \E answer \in StatsAnswers :
           youtube_stats_snapshots_csv' =
               StatsFileAfter(youtube_stats_snapshots_csv, youtube_videos_csv,
                              [tick |-> runs + 1, hour |-> hour], answer)
    /\ runs' = runs + 1
    /\ UNCHANGED <<tracks_csv, youtube_videos_csv, lyrics_csv, track_pairs,
                   script, targets, write_header, normalizer_vars, loader_vars>>

(***************************************************************************)
(* scripts/04_get_lyrics.py: the lyric script                              *)
(***************************************************************************)
\* lyrics.csv carries one more fact than the other files: whether it starts
\* with the header line that names the track_id column.
NoLyricsFile == [exists |-> FALSE, header |-> FALSE, rows |-> <<>>]

\* _already_done: the track ids of lyrics.csv; none when the file is missing
\* or cannot be read with a track_id column.
\* The ids of a reader that took every line of the file for a row, whether
\* or not the file starts with the header line.
_already_done_headerless(file) ==
    IF ~file.exists THEN {}
    ELSE {Strip(file.rows[i].track_id) : i \in 1..Len(file.rows)}

_already_done(file) ==
    IF ~file.exists \/ ~file.header THEN {}
    ELSE {Strip(file.rows[i].track_id) : i \in 1..Len(file.rows)}

\* The targets of a main that did not look at done_ids.
TargetsOf_all(track_rows, done_ids) ==
    LET Todo(row) == Strip(row.track_id) # <<>>
    IN  SelectSeq(track_rows, Todo)

\* Lines 527-531 of main: the tracks without a row in lyrics.csv.
TargetsOf(track_rows, done_ids) ==
    LET Todo(row) == Strip(row.track_id) # <<>> /\ Strip(row.track_id) \notin done_ids
    IN  SelectSeq(track_rows, Todo)

GENIUS_SONG_URL == "https://genius.com/song-lyrics"

\* What Genius gives for one track: the search fails with an HTTP error, which
\* ends the run; or it finds no song; or the song page cannot be scraped; or
\* the page is scraped.
SongFetches ==
    {[search |-> "error", url |-> "", scraped |-> FALSE, raw_lyrics |-> <<>>],
     [search |-> "ok", url |-> "", scraped |-> FALSE, raw_lyrics |-> <<>>],
     [search |-> "ok", url |-> GENIUS_SONG_URL, scraped |-> FALSE,
      raw_lyrics |-> Chars("I love you")],
     [search |-> "ok", url |-> GENIUS_SONG_URL, scraped |-> TRUE,
      raw_lyrics |-> Chars("[Verse 1]\nI love you\nYou love me")]}

\* The row of one track if line 568 did not set lyrics to "" after an
\* exception: the row keeps the text that was being scraped and cleaned.
LyricsRow_uncaught(row, fetch) ==
    LET Row(name, lyrics) ==
            [track_id |-> Strip(row.track_id),
             track_name |-> name,
             genius_url |-> fetch.url,
             lyrics |-> lyrics,
             word_count |-> count_words(lyrics),
             unique_word_count |-> count_unique_words(lyrics),
             repetition_ratio |-> repetition_ratio(lyrics)]
        Scraped(name) ==
            Row(name, IF fetch.url # ""
                      THEN clean_lyrics_text(fetch.raw_lyrics, name)
                      ELSE <<>>)
    IN  Scraped(lyrics_clean_track_name(Strip(row.track_name)))

\* Lines 545-583 of main: the row of one track.
LyricsRow(row, fetch) ==
    LET Row(name, lyrics) ==
            [track_id |-> Strip(row.track_id),
             track_name |-> name,
             genius_url |-> fetch.url,
             lyrics |-> lyrics,
             word_count |-> count_words(lyrics),
             unique_word_count |-> count_unique_words(lyrics),
             repetition_ratio |-> repetition_ratio(lyrics)]
        Scraped(name) ==
            Row(name, IF fetch.url # "" /\ fetch.scraped
                      THEN clean_lyrics_text(fetch.raw_lyrics, name)
                      ELSE <<>>)
    IN  Scraped(lyrics_clean_track_name(Strip(row.track_name)))

\* How the to_csv of lines 587-595 ends: the row is written; or it raises and
\* leaves the file as it was; or it raises after it has created the file.
WriteOutcomes == {"written", "failed", "failed_created"}

\* lyrics.csv after one to_csv in mode "a".
LyricsFileAfter(old, new_row, header, outcome) ==
    IF outcome = "written"
    THEN [exists |-> TRUE,
          header |-> IF ~old.exists \/ (~old.header /\ Len(old.rows) = 0)
                     THEN header ELSE old.header,
          rows |-> Append(old.rows, new_row)]
    ELSE IF outcome = "failed_created" /\ ~old.exists
    THEN [exists |-> TRUE, header |-> FALSE, rows |-> <<>>]
    ELSE old

\* main up to the loop: without tracks.csv, or with every track done, the
\* run ends at once.
LyricsStart ==
    /\ script = "none"
    /\ runs < MaxRuns
    /\ runs' = runs + 1
    /\ targets' = IF tracks_csv.exists
                  THEN TargetsOf(tracks_csv.rows, _already_done(lyrics_csv))
                  ELSE <<>>
    /\ script' = IF Len(targets') = 0 THEN "none" ELSE "lyrics"
    /\ write_header' = (Len(targets') # 0 /\ ~lyrics_csv.exists)
    /\ UNCHANGED <<files, track_pairs, normalizer_vars, loader_vars>>

\* One pass of the loop of main, over the next target.
LyricsStep ==
    /\ script = "lyrics"
    /\ Len(targets) > 0
    /\ \E fetch \in SongFetches : \E outcome \in WriteOutcomes :
           IF fetch.search = "error"
           THEN /\ targets' = <<>>
                /\ script' = "none"
                /\ write_header' = FALSE
                /\ UNCHANGED lyrics_csv
           ELSE /\ lyrics_csv' = LyricsFileAfter(lyrics_csv, LyricsRow(Head(targets), fetch),
                                                 write_header, outcome)
                /\ write_header' = (write_header /\ outcome # "written" /\ Len(targets) > 1)
                /\ targets' = Tail(targets)
                /\ script' = IF Len(targets) = 1 THEN "none" ELSE "lyrics"
    /\ UNCHANGED <<tracks_csv, youtube_videos_csv, youtube_stats_snapshots_csv,
                   track_pairs, runs, normalizer_vars, loader_vars>>

(***************************************************************************)
(* scripts/05_load_to_postgres.py: the loader                              *)
(***************************************************************************)
\* FILES: the tables, in the order in which main copies their CSV files.
FILES == <<"tracks", "lyrics", "youtube_videos", "youtube_stats_snapshots">>

\* The data directory as the loader reads it: the CSV file of each table.
DataDir(tracks, lyrics, videos, stats) ==
    [tracks |-> tracks, lyrics |-> lyrics, youtube_videos |-> videos,
     youtube_stats_snapshots |-> stats]

\* assert_files: the tables whose CSV file is missing.
assert_files(dir) == {table \in Range(FILES) : ~dir[table].exists}

\* COPY ... WITH (FORMAT csv, HEADER true) takes the first line of the file
\* for the header and loads the lines after it. The scripts write the header
\* line of every file but, after a failed first write, that of lyrics.csv.
CopiedRows(table, file) ==
    IF table = "lyrics" /\ ~file.header
    THEN IF Len(file.rows) = 0 THEN <<>> ELSE Tail(file.rows)
    ELSE file.rows

\* copy_csv: the rows of the file are added to the table.
copy_csv(tables, table, file) ==
    [tables EXCEPT ![table] = @ \o CopiedRows(table, file)]

\* The statements of main's transaction in order: the TRUNCATE of the four
\* tables, the four copies, the count query.
Statements == <<"truncate">> \o FILES \o <<"count">>

\* The tables of the transaction after one more statement.
AfterStatement(tables, statement, dir) ==
    IF statement = "truncate" THEN EmptyTables
    ELSE IF statement = "count" THEN tables
    ELSE copy_csv(tables, statement, dir[statement])

\* The tables after the first n statements.
RECURSIVE AfterStatements(_, _, _)
AfterStatements(tables, n, dir) ==
    IF n = 0 THEN tables
    ELSE AfterStatement(AfterStatements(tables, n - 1, dir), Statements[n], dir)

\* The committed tables when a connection commits every statement at once
\* and an exception leaves what the statements before it did.
Autocommit(committed, working) == working

\* "with conn": the block's normal end commits the transaction, an exception
\* raised inside it rolls the transaction back.
Commit(committed, working) == working

Rollback(committed, working) == committed

\* The number of loader runs of a behaviour.
MaxLoads == 2

\* main up to "with conn": a missing file or a refused connection ends the
\* run before any statement.
LoadStart ==
    /\ load_pc # "open"
    /\ loads < MaxLoads
    /\ loads' = loads + 1
    /\ executed' = 0
    /\ \E connected \in BOOLEAN :
           load_pc' = IF assert_files(DataDir(tracks_csv, lyrics_csv, youtube_videos_csv,
                                              youtube_stats_snapshots_csv)) = {} /\ connected
                      THEN "open" ELSE "failed"
    /\ tx' = db
    /\ UNCHANGED <<db, files, track_pairs, script, targets, write_header, runs,
                   normalizer_vars>>

\* The next statement of the transaction succeeds.
LoadStatement ==
    /\ load_pc = "open"
    /\ executed < Len(Statements)
    /\ tx' = AfterStatement(tx, Statements[executed + 1],
                            DataDir(tracks_csv, lyrics_csv, youtube_videos_csv,
                                    youtube_stats_snapshots_csv))
    /\ executed' = executed + 1
    /\ UNCHANGED <<db, load_pc, loads, files, track_pairs, script, targets, write_header,
                   runs, normalizer_vars>>

\* The next statement, or the commit after the last one, raises.
LoadFail ==
    /\ load_pc = "open"
    /\ db' = Rollback(db, tx)
    /\ tx' = db'
    /\ load_pc' = "failed"
    /\ UNCHANGED <<executed, loads, files, track_pairs, script, targets, write_header,
                   runs, normalizer_vars>>

\* The block ends after the count query: the transaction is committed.
LoadCommit ==
    /\ load_pc = "open"
    /\ executed = Len(Statements)
    /\ db' = Commit(db, tx)
    /\ tx' = db'
    /\ load_pc' = "loaded"
    /\ UNCHANGED <<executed, loads, files, track_pairs, script, targets, write_header,
                   runs, normalizer_vars>>

\* The data directories the loader is started on: what a run of the track
\* script, of the match script, of the stats script and one pass of the lyric
\* script leave, the last with or without the header line.
DirAfter(fetch, playlist, answer, song, header) ==
    LET Lyrics(t) ==
            IF ~t.exists THEN NoLyricsFile
            ELSE LyricsFileAfter(IF header THEN NoLyricsFile
                                 ELSE LyricsFileAfter(NoLyricsFile, <<>>, TRUE, "failed_created"),
                                 LyricsRow(t.rows[1], song), header, "written")
        WithVideos(t, v) ==
            DataDir(t, Lyrics(t), v,
                    StatsFileAfter(NoFile, v, [tick |-> 1, hour |-> EVENING_START_UTC], answer))
        WithTracks(t) ==
            WithVideos(t, IF t.exists /\ playlist.ok
                          THEN File(VideoRows(t.rows, playlist.album_videos, playlist.durations))
                          ELSE NoFile)
    IN  WithTracks(IF fetch.ok /\ ~scrape_album_tracklist(fetch).raised
                   THEN TracksFileAfter(NoFile, scrape_album_tracklist(fetch).pairs)
                   ELSE NoFile)

LoadDirs ==
    {DirAfter(fetch, playlist, answer, song, header) :
         fetch \in {f \in AlbumFetches : f.has_state},
         playlist \in {p \in Playlists : DOMAIN p.durations # {Chars("vidB")}},
         answer \in {a \in StatsAnswers : DOMAIN a.stats_map # {Chars("vidA")}},
         song \in {s \in SongFetches : s.search = "ok" /\ s.url # ""},
         header \in BOOLEAN}

\* The loader starts on one of the directories, with a database that is
\* empty or holds an earlier load of one of them.
InitLoad ==
    /\ \E dir \in LoadDirs :
           /\ tracks_csv = dir.tracks
           /\ lyrics_csv = dir.lyrics
           /\ youtube_videos_csv = dir.youtube_videos
           /\ youtube_stats_snapshots_csv = dir.youtube_stats_snapshots
    /\ \E dir \in LoadDirs :
           db \in {EmptyTables} \cup
                  (IF assert_files(dir) = {}
                   THEN {AfterStatements(EmptyTables, Len(Statements), dir)} ELSE {})
    /\ tx = db
    /\ load_pc = "idle"
    /\ executed = 0
    /\ loads = 0
    /\ track_pairs = NoPairs
    /\ script = "none"
    /\ targets = <<>>
    /\ write_header = FALSE
    /\ runs = 0
    /\ raw = None
    /\ track_name = <<>>
    /\ copies = 1
    /\ cleaned = None
    /\ recleaned = None
    /\ metrics = NoMetrics
    /\ tokens = None
    /\ pc = "scripts"

NextLoad ==
    \/ LoadStart
    \/ LoadStatement
    \/ LoadFail
    \/ LoadCommit

SpecLoad == InitLoad /\ [][NextLoad]_vars

\* C11: the committed tables change only when the loader's transaction
\* commits, and then they hold what the truncation and the four copies of the
\* whole data directory give; a run in which a statement or the commit fails
\* leaves every table with the rows it held before the run, so that emptied
\* or partly reloaded tables are never committed.
C11_LoadAllOrNothing ==
    [][/\ db' # db =>
              /\ load_pc = "open" /\ load_pc' = "loaded"
              /\ db' = AfterStatements(db, Len(Statements),
                                       DataDir(tracks_csv, lyrics_csv, youtube_videos_csv,
                                               youtube_stats_snapshots_csv))
       /\ load_pc' = "failed" => db' = db]_vars

\* A run has failed after the truncation and after copies, over tables that
\* held rows before it.
C11_Witness ==
    /\ load_pc = "failed"
    /\ executed >= 3
    /\ executed < Len(Statements)
    /\ db.tracks # <<>>
    /\ db.lyrics # <<>>

(***************************************************************************)
(* The pipeline: the scripts run one after another, in any order           *)
(***************************************************************************)
Init ==
    /\ NoPipeline
    /\ raw = None
    /\ track_name = <<>>
    /\ copies = 1
    /\ cleaned = None
    /\ recleaned = None
    /\ metrics = NoMetrics
    /\ tokens = None
    /\ pc = "scripts"

Next ==
    \/ RunTracks
    \/ RunMatch
    \/ RunStats
    \/ LyricsStart
    \/ LyricsStep

Spec == Init /\ [][Next]_vars

(***************************************************************************)
(* Properties of the pipeline                                              *)
(***************************************************************************)
DistinctIds(rows) ==
    \A i \in 1..Len(rows) : \A j \in 1..Len(rows) :
        i # j => rows[i].track_id # rows[j].track_id

DistinctNumbers(pairs) ==
    \A i \in 1..Len(pairs) : \A j \in 1..Len(pairs) : i # j => pairs[i][1] # pairs[j][1]

\* make_track_id gives distinct, non-empty identifiers to the distinct track
\* numbers of the album.
MakeTrackIdInjective ==
    /\ \A n \in MinTrackNumber..MaxTrackNumber : make_track_id(ALBUM_SLUG, n) # <<>>
    /\ Cardinality({make_track_id(ALBUM_SLUG, n) : n \in MinTrackNumber..MaxTrackNumber})
           = Cardinality(MinTrackNumber..MaxTrackNumber)

\* Tracklists that would give two rows the same identifier.
DuplicatePairs ==
    {<<<<1, Chars("Intro")>>, <<1, Chars("Other")>>>>,
     <<<<2, Chars("Love")>>, <<1, Chars("Intro")>>, <<2, Chars("Love")>>>>}

\* main leaves tracks.csv as it was when the rows hold a duplicate track id.
DuplicateIdsNotWritten ==
    \A pairs \in DuplicatePairs :
        \A old \in {NoFile, File(TrackRows(<<<<1, Chars("Intro")>>>>))} :
            TracksFileAfter(old, pairs) = old

\* C8: every tracks.csv the track script has written holds pairwise distinct,
\* non-empty track ids: make_track_id gives distinct ids to distinct track
\* numbers, the extracted tracklist holds each track number at most once, and
\* no file is written for rows among which a duplicate id is detected.
C8_TrackIdsDistinct ==
    /\ tracks_csv.exists =>
           /\ DistinctIds(tracks_csv.rows)
           /\ \A i \in 1..Len(tracks_csv.rows) : tracks_csv.rows[i].track_id # <<>>
    /\ ~track_pairs.raised => DistinctNumbers(track_pairs.pairs)
    /\ MakeTrackIdInjective
    /\ DuplicateIdsNotWritten

\* A run of the track script has extracted several tracks and written them.
C8_Witness ==
    /\ ~track_pairs.raised
    /\ Len(track_pairs.pairs) >= 2
    /\ tracks_csv.exists
    /\ Len(tracks_csv.rows) = Len(track_pairs.pairs)

IsPrefix(a, b) == Len(a) <= Len(b) /\ SubSeq(b, 1, Len(a)) = a

\* C9: youtube_stats_snapshots.csv is append-only: whatever script runs, the
\* file stays, and every row it held before the step is there after it,
\* unchanged and at the same position; a run only adds rows at the end.
C9_SnapshotsAppendOnly ==
    [][youtube_stats_snapshots_csv.exists =>
           /\ youtube_stats_snapshots_csv'.exists
           /\ IsPrefix(youtube_stats_snapshots_csv.rows, youtube_stats_snapshots_csv'.rows)]_vars

\* Two runs of the stats script have each added rows to the file.
C9_Witness ==
    /\ youtube_stats_snapshots_csv.exists
    /\ \E i \in 1..Len(youtube_stats_snapshots_csv.rows) :
       \E j \in (i + 1)..Len(youtube_stats_snapshots_csv.rows) :
           youtube_stats_snapshots_csv.rows[i].captured_at.tick
               < youtube_stats_snapshots_csv.rows[j].captured_at.tick

\* The track ids of the current tracks.csv.
TrackIds == {tracks_csv.rows[i].track_id : i \in 1..Len(tracks_csv.rows)}

\* The video ids of the current youtube_videos.csv.
VideoIds == {youtube_videos_csv.rows[i].youtube_video_id : i \in 1..Len(youtube_videos_csv.rows)}

\* C10: referential integrity holds after any sequence of runs of the four
\* scripts: every row of lyrics.csv and of youtube_videos.csv has a track_id
\* of the current tracks.csv, and every row of youtube_stats_snapshots.csv
\* has a youtube_video_id of the current youtube_videos.csv.
C10_ReferentialIntegrity ==
    /\ \A i \in 1..Len(lyrics_csv.rows) : lyrics_csv.rows[i].track_id \in TrackIds
    /\ \A i \in 1..Len(youtube_videos_csv.rows) : youtube_videos_csv.rows[i].track_id \in TrackIds
    /\ \A i \in 1..Len(youtube_stats_snapshots_csv.rows) :
           youtube_stats_snapshots_csv.rows[i].youtube_video_id \in VideoIds

\* C12: the file a run of the video-matching script writes has exactly one
\* row per track of tracks.csv, in the order of track numbers; a row without
\* a video has null video id, title and publish time and match_confidence
\* "none", and match_confidence is "high" exactly when the video id is not null.
C12_OneRowPerTrack ==
    [][youtube_videos_csv' # youtube_videos_csv =>
           LET OfTracks(sorted, rows) ==
                   /\ Len(rows) = Len(sorted)
                   /\ \A i \in 1..Len(rows) :
                          /\ rows[i].track_id = sorted[i].track_id
                          /\ rows[i].match_confidence \in {"high", "none"}
                          /\ rows[i].match_confidence = "high" <=> rows[i].youtube_video_id # None
                          /\ rows[i].youtube_video_id = None =>
                                 /\ rows[i].youtube_title = None
                                 /\ rows[i].published_at = None
                                 /\ rows[i].match_confidence = "none"
           IN  /\ youtube_videos_csv'.exists
               /\ OfTracks(SortByNumber(tracks_csv.rows), youtube_videos_csv'.rows)]_vars

\* The matching script has written a row without a video for a track and a
\* row with a video for the track after it.
C12_Witness ==
    /\ youtube_videos_csv.exists
    /\ Len(youtube_videos_csv.rows) = 2
    /\ youtube_videos_csv.rows[1].match_confidence = "none"
    /\ youtube_videos_csv.rows[1].youtube_video_id = None
    /\ youtube_videos_csv.rows[2].match_confidence = "high"
    /\ youtube_videos_csv.rows[2].youtube_video_id = Chars("vidB")

\* The fetches in which scrape_genius_lyrics or clean_lyrics_text raises.
FailedScrapes == {fetch \in SongFetches : fetch.search = "ok" /\ fetch.url # "" /\ ~fetch.scraped}

\* C13: when scraping or cleaning the page of the track at hand raises, the
\* row of the track has empty lyrics and zero word count, unique count and
\* repetition ratio; a pass of the loop that writes the row appends it to
\* lyrics.csv and the run goes on with the next unprocessed track.
C13_FailedScrapeRecorded ==
    [][(script = "lyrics" /\ Len(targets) > 0) =>
           LET IsEmptyRow(row) ==
                   /\ row.track_id = Strip(Head(targets).track_id)
                   /\ row.lyrics = <<>>
                   /\ row.word_count = 0
                   /\ row.unique_word_count = 0
                   /\ row.repetition_ratio = 0
           IN  /\ \A fetch \in FailedScrapes : IsEmptyRow(LyricsRow(Head(targets), fetch))
               /\ lyrics_csv'.rows # lyrics_csv.rows =>
                      /\ \E fetch \in SongFetches :
                             lyrics_csv'.rows = Append(lyrics_csv.rows,
                                                       LyricsRow(Head(targets), fetch))
                      /\ targets' = Tail(targets)
                      /\ script' = IF Len(targets') > 0 THEN "lyrics" ELSE "none"]_vars

\* The row of a track whose page could not be scraped is the last row of
\* lyrics.csv, and the run is going on with the next track.
C13_Witness ==
    /\ script = "lyrics"
    /\ Len(targets) > 0
    /\ Len(lyrics_csv.rows) > 0
    /\ LET Last(row) ==
               /\ row.genius_url = GENIUS_SONG_URL
               /\ row.lyrics = <<>>
               /\ row.word_count = 0
               /\ row.track_id # Strip(Head(targets).track_id)
       IN  Last(lyrics_csv.rows[Len(lyrics_csv.rows)])

\* C14: while lyrics.csv exists without the header line that names the
\* track_id column (it cannot be parsed for its ids), _already_done returns
\* the empty set, and a run of the lyric script started then does not fail:
\* it takes every track of tracks.csv as a target.
C14_MalformedMeansNoneDone ==
    [][(lyrics_csv.exists /\ ~lyrics_csv.header) =>
           /\ _already_done(lyrics_csv) = {}
           /\ (script = "none" /\ script' = "lyrics") =>
                  /\ targets' = tracks_csv.rows
                  /\ UNCHANGED lyrics_csv]_vars

\* A run has started over a lyrics.csv that has rows but no header line, and
\* its targets are all the tracks of tracks.csv.
C14_Witness ==
    /\ script = "lyrics"
    /\ lyrics_csv.exists
    /\ ~lyrics_csv.header
    /\ Len(lyrics_csv.rows) > 0
    /\ Len(targets) = 2
    /\ targets = tracks_csv.rows

\* C15: a run of the lyric script takes only the next unprocessed track: its
\* targets hold at most one track, and the pass that appends a row to
\* lyrics.csv is the last pass of its run.
C15_OneTrackPerRun ==
    [][/\ Len(targets') <= 1
       /\ lyrics_csv'.rows # lyrics_csv.rows => script' = "none"]_vars

\* The ids of the rows of lyrics.csv.
LyricsIds == {Strip(lyrics_csv.rows[i].track_id) : i \in 1..Len(lyrics_csv.rows)}

\* C16: while lyrics.csv is well-formed (it is missing, or starts with its
\* header line), no two of its rows have the same track_id, and no target of
\* the running lyric script is a track whose id is already in the file,
\* whatever its lyrics; no step takes a row away from lyrics.csv or changes
\* one, so the rows written before a run was aborted are kept.
C16_NoTrackTwice ==
    [][/\ (lyrics_csv.exists => lyrics_csv.header) =>
              /\ DistinctIds(lyrics_csv.rows)
              /\ \A i \in 1..Len(targets) : Strip(targets[i].track_id) \notin LyricsIds
       /\ (lyrics_csv'.exists => lyrics_csv'.header) =>
              /\ DistinctIds(lyrics_csv'.rows)
              /\ \A i \in 1..Len(targets') :
                     Strip(targets'[i].track_id)
                         \notin {Strip(lyrics_csv'.rows[k].track_id) : k \in 1..Len(lyrics_csv'.rows)}
       /\ IsPrefix(lyrics_csv.rows, lyrics_csv'.rows)]_vars

\* A third run is under way: an earlier lyric run recorded one of the two
\* tracks, with empty lyrics, and ended before it recorded the other; the
\* run at hand has the other track as its only target.
C16_Witness ==
    /\ script = "lyrics"
    /\ runs >= 3
    /\ lyrics_csv.header
    /\ Len(tracks_csv.rows) = 2
    /\ Len(lyrics_csv.rows) = 1
    /\ lyrics_csv.rows[1].lyrics = <<>>
    /\ lyrics_csv.rows[1].track_id = tracks_csv.rows[1].track_id
    /\ targets = <<tracks_csv.rows[2]>>

\* Line ln is a sentinel line: "You might also like" or "Embed" in any
\* letter case, whatever the whitespace around it.
IsSentinel(ln) == ToLower(Strip(ln)) \in {Chars("you might also like"), Chars("embed")}

\* The index of the first sentinel line of lines, 0 if there is none.
FirstSentinel(lines) ==
    IF \E i \in 1..Len(lines) : IsSentinel(lines[i])
    THEN CHOOSE i \in 1..Len(lines) :
             IsSentinel(lines[i]) /\ \A k \in 1..(i - 1) : ~IsSentinel(lines[k])
    ELSE 0

\* C17: when a line of the raw text is a sentinel line, wherever it stands,
\* no line of the returned text is a sentinel line, and every line of the
\* returned text comes from the lines before the first sentinel line.
C17_FooterRemoved ==
    (/\ pc \in {"cleaned", "measured", "recleaned"}
     /\ raw # None
     /\ FirstSentinel(SplitLines(raw)) # 0)
        => /\ \A i \in 1..Len(LinesOf(cleaned)) : ~IsSentinel(LinesOf(cleaned)[i])
           /\ \A i \in 1..Len(LinesOf(cleaned)) :
                  \/ LinesOf(cleaned)[i] = <<>>
                  \/ \E k \in 1..(FirstSentinel(SplitLines(raw)) - 1) :
                         Contains(SplitLines(raw)[k], LinesOf(cleaned)[i])

\* How many of the first i lines are not blank.
NonBlankUpTo(lines, i) == Cardinality({k \in 1..i : Strip(lines[k]) # <<>>})

\* A line that ends in an ellipsis and that no rule but the scan of the top
\* of the text removes: a teaser line.
IsTeaser(ln, title) ==
    /\ EndsWith(Strip(ln), Chars("..."))
    /\ KeepLine(Strip(ln), title, _norm_for_title_match_early(title))
    /\ ~looks_like_description_anywhere(ln, _norm_for_title_match_early(title))

\* A text of plain lines: no bracket, no parenthesis, no sentinel line.
IsPlainText(text) ==
    /\ text # None
    /\ \A i \in 1..Len(text) : text[i] \notin {"[", "]", "(", ")", "\r"}
    /\ FirstSentinel(SplitLines(text)) = 0

\* C18: the scan of the top of the text looks at the first 8 non-blank lines
\* only: a teaser line that is the 9th non-blank line of the raw text or a
\* later one is a line of the returned text, whatever the lines before it.
C18_ScanFirstEightOnly ==
    (/\ pc \in {"cleaned", "measured", "recleaned"}
     /\ IsPlainText(raw))
        => \A i \in 1..Len(SplitLines(raw)) :
               (/\ NonBlankUpTo(SplitLines(raw), i) > max_top_nonempty
                /\ IsTeaser(SplitLines(raw)[i], track_name))
                   => \E k \in 1..Len(LinesOf(cleaned)) :
                          LinesOf(cleaned)[k] = Strip(SplitLines(raw)[i])

\* The bracketed headers of a text: for every opening bracket that a closing
\* bracket follows, the text from the one through the next of the other.
BracketedHeaders(text) ==
    {SubSeq(text, i, IndexFrom(text, "]", i)) :
         i \in {k \in 1..Len(text) : text[k] = "[" /\ IndexFrom(text, "]", k) # 0}}

\* The characters of a header that are neither brackets nor white space, by
\* line: the fragments a removal must not leave.
HeaderFragments(header) ==
    {Strip(SelectSeq(SplitLines(header)[i], LAMBDA c : c \notin {"[", "]"})) :
         i \in 1..Len(SplitLines(header))} \ {<<>>}

\* C19: no fragment of a bracketed header of the raw text is in the returned
\* text, be the header on one line or on several, be its label a section
\* keyword or the name of a performer; no bracket is left either.
C19_HeadersRemoved ==
    (/\ pc \in {"cleaned", "measured", "recleaned"}
     /\ raw # None
     /\ FirstSentinel(SplitLines(raw)) = 0)
        => \A header \in BracketedHeaders(raw) :
               /\ ~Contains(cleaned, header)
               /\ \A fragment \in HeaderFragments(header) :
                      \A k \in 1..Len(LinesOf(cleaned)) :
                          ~Contains(LinesOf(cleaned)[k], <<"[">> \o fragment)
                          /\ ~Contains(LinesOf(cleaned)[k], fragment \o <<"]">>)

\* C20: every token the metrics count has a letter or a digit, and neither
\* starts nor ends with an apostrophe: an apostrophe is part of a token only
\* between letters or digits.
C20_TokensAreWords ==
    pc = "measured_text" =>
        \A i \in 1..Len(tokens) :
            /\ \E k \in 1..Len(tokens[i]) : tokens[i][k] # "'"
            /\ tokens[i][1] # "'"
            /\ tokens[i][Len(tokens[i])] # "'"

\* The data rows of a CSV file as the scripts wrote them.
DataRows(file) == file.rows

\* C21: in the loader's transaction the deletions come first and the loads
\* after them: only the first statement takes rows away, every later one
\* leaves the rows that are there in place; when the run commits, each of the
\* four tables holds exactly the data rows of its CSV file, none of the rows
\* it held before, and a further load of the same files gives the same tables.
C21_DestructiveThenBulkInsert ==
    [][/\ (load_pc = "open" /\ tx' # tx /\ executed = 0) => tx' = EmptyTables
       /\ (load_pc = "open" /\ load_pc' = "open" /\ executed > 0) =>
              \A table \in Range(FILES) : IsPrefix(tx[table], tx'[table])
       /\ (load_pc = "open" /\ load_pc' = "loaded") =>
              /\ db'.tracks = DataRows(tracks_csv)
              /\ db'.lyrics = DataRows(lyrics_csv)
              /\ db'.youtube_videos = DataRows(youtube_videos_csv)
              /\ db'.youtube_stats_snapshots = DataRows(youtube_stats_snapshots_csv)
              /\ db' = AfterStatements(db', Len(Statements),
                                       DataDir(tracks_csv, lyrics_csv, youtube_videos_csv,
                                               youtube_stats_snapshots_csv))]_vars

\* The hour is in the evening window [18, 22).
InWindow(hour) == EVENING_START_UTC <= hour /\ hour < EVENING_END_UTC

\* C22: with FORCE_RUN false, a run of the stats script started at an hour
\* outside [18, 22) leaves youtube_stats_snapshots.csv as it is whatever the
\* API would answer; the rows a step appends all carry the captured_at of the
\* run, whose hour is in 18..21, and no two of them have the same video id;
\* so every row of the file has a captured_at in the window.
C22_EveningWindowOnly ==
    [][~FORCE_RUN =>
           LET SameRun(old, new) ==
                   \A i \in (Len(old) + 1)..Len(new) :
                       /\ new[i].captured_at.tick = runs'
                       /\ InWindow(new[i].captured_at.hour)
                       /\ new[i].captured_at = new[Len(old) + 1].captured_at
                       /\ \A k \in (Len(old) + 1)..Len(new) :
                              new[k].youtube_video_id = new[i].youtube_video_id => k = i
           IN  /\ \A hour \in {h \in Hours : ~InWindow(h)} : \A answer \in StatsAnswers :
                      StatsFileAfter(youtube_stats_snapshots_csv, youtube_videos_csv,
                                     [tick |-> runs + 1, hour |-> hour], answer)
                          = youtube_stats_snapshots_csv
               /\ SameRun(youtube_stats_snapshots_csv.rows, youtube_stats_snapshots_csv'.rows)
               /\ \A i \in 1..Len(youtube_stats_snapshots_csv'.rows) :
                      InWindow(youtube_stats_snapshots_csv'.rows[i].captured_at.hour)]_vars

\* Two runs of the stats script have appended rows, one of them in the last
\* hour of the window and with rows for two videos.
C22_Witness ==
    /\ youtube_stats_snapshots_csv.exists
    /\ \E i, k \in 1..Len(youtube_stats_snapshots_csv.rows) :
           /\ i < k
           /\ youtube_stats_snapshots_csv.rows[i].captured_at
                  = youtube_stats_snapshots_csv.rows[k].captured_at
           /\ youtube_stats_snapshots_csv.rows[i].captured_at.hour = EVENING_END_UTC - 1
           /\ youtube_stats_snapshots_csv.rows[i].youtube_video_id
                  # youtube_stats_snapshots_csv.rows[k].youtube_video_id
    /\ \E i, k \in 1..Len(youtube_stats_snapshots_csv.rows) :
           youtube_stats_snapshots_csv.rows[i].captured_at.tick
               # youtube_stats_snapshots_csv.rows[k].captured_at.tick

====
